---- MODULE Spec2Model ----
(***************************************************************************)
(* Velox Air screen-mirroring server: the engine registry, the connection  *)
(* handler, the per-engine video broadcast loop and the guarded sends of   *)
(* src/air_server_app.py, with the payload framing of src/core/encoder.py  *)
(* and the keyframe path of src/core/engine.py.                            *)
(*                                                                         *)
(* The server is a single-threaded asyncio program: the code between two   *)
(* awaits that suspend is one atomic action here; an encode running in the *)
(* executor samples its timestamp in a step of its own.                    *)
(***************************************************************************)
EXTENDS Integers, Sequences, FiniteSets, TLC

\* ---------------------------------------------------------------- bounds
NumViewers == 2      \* websocket connections (viewers), each connects once
MaxSlots == 3        \* engine slots ever constructed
MaxTicks == 1        \* steps of the wall clock
TickStep == 60       \* seconds per step of the wall clock
MaxSent == 2         \* video payloads logged per viewer (the first ones)
MaxPending == 2      \* guarded delta send tasks pending per viewer

GovStep == 250       \* milliseconds per step of the governor's clock
MaxGovTime == 1500   \* last instant of the governor's clock, milliseconds
ScenarioCalm == 20   \* calm ticks of the feed scenario
ScenarioPressed == 10 \* heavy ticks of the feed scenario
ScenarioStep == 500  \* milliseconds between two ticks of the scenario

MaxWidth == 2        \* widest captured frame, pixels
MaxHeight == 3       \* tallest captured frame, pixels
MaxArea == 4         \* most pixels of a captured frame
MaxPixel == 1        \* largest pixel value
MaxTile == 2         \* largest tile size, pixels
MaxFrameNo == 2      \* partition_and_detect_changes calls followed

\* ------------------------------------------------------ program constants
RateLimit == 500     \* governor update window, milliseconds
Deadband == 5000     \* quality_deadband 5.0, in thousandths
QScale == 1000       \* qualities are kept in thousandths of a point
WebpQuality == 70    \* config webp_quality default of the engine's encoder
DefaultTile == 128   \* StreamEngine._tile_size, current_tile_size at start
AirFps == 20         \* target_fps of the AIR tier
EcoFps == 10         \* target_fps in SUPER_ECO mode
CoolDown == 60       \* blacklist cool-down, seconds
RecoveryGap == 2     \* seconds without change before a recovery keyframe
TagDelta == 1        \* b"\x01"
TagKey == 2          \* pkt[0] = 0x02

NoTime == 0 - 1
Monitor == 0         \* config['server']['monitor_id']
NumMonitors == 2     \* physical monitors of the host
Monitors == 0..(NumMonitors - 1)
Viewers == 1..NumViewers
SlotIds == 1..MaxSlots
RebuildTask(s) == NumViewers + s
Tasks == 1..(NumViewers + MaxSlots)

\* MSSCapture.__init__ / _resolve_resolution: the width and height of the
\* frames a monitor's capture yields.
MonitorDims(m) == <<3 + m, 2>>

VARIABLES
    now,               \* time.time(), whole seconds
    nativeCore,        \* velox_core is importable
    cfgOptimize,       \* self.config['server']['optimize_capture_pipeline']
    cfgMonitor,        \* self.config['server']['monitor_id']
    persisted,         \* the content of metadata/runtime_state.json
    ctorMayThrow,      \* StreamEngine(cfg) can raise on this host
    engines,           \* self.engines: monitor_id -> slot id, 0 = absent
    slots,             \* the engine_data dicts ever built, by slot id
    nextSlot,          \* number of slots built so far
    backend_blacklist, \* self._backend_blacklist: monitor_id -> time, NoTime = absent
    engine_lock,       \* self._engine_lock: the task holding it, 0 = free
    goe,               \* the get_or_create_engine call of each task
    hnd,               \* _ws_handler of each viewer
    open,              \* websocket.state.name == 'OPEN'
    loop,              \* _engine_broadcast_loop task of each slot
    clients_sending,   \* keys of self._clients_sending
    deltaPending,      \* _safe_send tasks spawned by the loops, per viewer
    sent,              \* video payloads handed to websocket.send, per viewer
    governor,          \* an AdaptiveGovernor (tier AIR), NoGovernor = not built
    engine_params,     \* encoder._quality, tile_size, frame_rate of its engine
    reported,          \* the latest CLIENT_STATS of each viewer of that engine
    fed,               \* the CLIENT_STATS message handled last
    govClock,          \* time.time() of the governor's host, milliseconds
    run,               \* accepted updates in a row: calm ones, then pressed ones
    partitioner,       \* a TilePartitioner: _tile_size, _last_frame_np, _frame_number
    work,              \* partition_and_detect_changes running in the executor
    delta,             \* the DeltaFrame the partitioner returned last
    given,             \* what that call was given: frame, reference, tile size
    streamEngine,      \* a StreamEngine: backend, _lock, last_frame, _capture_iter
    call,              \* the calls in progress on that engine, by calling task
    owed,              \* viewers not sent a 0x02 keyframe since a FORCE_REFRESH
    wire,              \* WebPEncoder.encode of the last delta and what the loop did with it
    view               \* per viewer of that engine: member of clients, screen_buffer

vars == <<now, nativeCore, cfgOptimize, cfgMonitor, persisted, ctorMayThrow, engines, slots, nextSlot,
          backend_blacklist, engine_lock, goe, hnd, open, loop,
          clients_sending, deltaPending, sent,
          governor, engine_params, reported, fed, govClock, run,
          partitioner, work, delta, given, streamEngine, call, owed, wire, view>>

hostVars == <<now, nativeCore, cfgOptimize, cfgMonitor, persisted, ctorMayThrow, engines, slots,
              nextSlot, backend_blacklist, engine_lock, goe, hnd, open, loop,
              clients_sending, deltaPending, sent, owed>>
pipeVars == <<wire, view>>
srvVars == <<hostVars, pipeVars>>
govVars == <<governor, engine_params, reported, fed, govClock, run>>
partVars == <<partitioner, work, delta, given>>
engVars == <<streamEngine, call>>
objVars == <<govVars, partVars, engVars>>
libVars == <<objVars, owed, pipeVars>>
envVars == <<nativeCore, cfgOptimize, ctorMayThrow>>
selVars == <<cfgMonitor, persisted>>
regVars == <<engines, slots, nextSlot, backend_blacklist, engine_lock, goe>>
sendVars == <<clients_sending, deltaPending, sent>>

\* ------------------------------------------------------------- payloads
NoPayload == [tag |-> 0, timestamp_ms |-> 0, num_tiles |-> 0, full_w |-> 0, full_h |-> 0]

\* WebPEncoder.encode: type tag 0x01, the timestamp sampled at encode time,
\* then either the full-frame form (num_tiles = 0, full_w, full_h) or the
\* tile table.
encode(full_frame_fallback, ntiles, width, height, t) ==
    [tag |-> TagDelta,
     timestamp_ms |-> t * 1000,
     num_tiles |-> IF full_frame_fallback THEN 0 ELSE ntiles,
     full_w |-> IF full_frame_fallback THEN width ELSE 0,
     full_h |-> IF full_frame_fallback THEN height ELSE 0]

\* StreamEngine.get_initial_payload: a full-frame delta of the captured
\* frame, encoded.
get_initial_payload(dims, t) == encode(TRUE, 1, dims[1], dims[2], t)

\* pkt = bytearray(lossless); pkt[0] = 0x02
AsKeyframe(p) == [p EXCEPT !.tag = TagKey]

\* The payload _ws_handler sends after get_initial_payload returned.
JoinFrame(p) == p

LogEntry(kind, p) ==
    [kind |-> kind, tag |-> p.tag, timestamp_ms |-> p.timestamp_ms,
     num_tiles |-> p.num_tiles, full_w |-> p.full_w, full_h |-> p.full_h]

\* The log keeps the first MaxSent video payloads handed to a websocket.
Log(seq, e) == IF Len(seq) < MaxSent THEN Append(seq, e) ELSE seq

\* ---------------------------------------------------------------- state
NoSlot == [mon |-> 0, clients |-> {}, force_enhancement |-> FALSE,
           optimize |-> FALSE, backend |-> "none", stopped |-> FALSE,
           audio_task |-> "none", gov_stats |-> 0]
NoCall == [pc |-> "none", mon |-> 0, force |-> FALSE, nested |-> FALSE,
           old |-> 0, ret |-> 0]
NoHandler == [pc |-> "idle", mon |-> 0, ed |-> 0, payload |-> NoPayload,
              queue |-> {}, old |-> 0, version |-> NoTime, dashboard |-> FALSE,
              target |-> 0, moved |-> {}, mids |-> {}, err |-> "none"]
NoLoop == [pc |-> "none", mon |-> 0, data |-> 0, payload |-> NoPayload,
           enh_sent |-> FALSE, last_change |-> 0, cancel |-> FALSE,
           recovery |-> FALSE, queue |-> {}, cur |-> 0]

\* runtime_state.json: absent, or the object _save_runtime_state dumps.
NoFile == [exists |-> FALSE, last_monitor_id |-> 0]

\* _save_runtime_state: {"last_monitor_id": config monitor_id}
SaveState(m) == [exists |-> TRUE, last_monitor_id |-> m]

\* A startup that never reads the file: the selection stays the one of
\* config.
LoadIgnoresFile(file, configured) == configured

\* _load_runtime_state: the configured monitor becomes int(last_monitor_id)
\* when the file exists and holds one, and stays what it is otherwise.
LoadState(file, configured) ==
    IF file.exists THEN file.last_monitor_id ELSE configured

\* ------------------------------------------------------------- governor
\* AdaptiveGovernor.MODES
Modes == {"GAMING", "BALANCED", "STUDIO"}
ModeCfg(mode) ==
    CASE mode = "GAMING" -> [min_q |-> 30, max_q |-> 80, target_q |-> 65]
      [] mode = "BALANCED" -> [min_q |-> 20, max_q |-> 90, target_q |-> 75]
      [] OTHER -> [min_q |-> 50, max_q |-> 100, target_q |-> 95]

Max2(a, b) == IF a > b THEN a ELSE b
Min2(a, b) == IF a < b THEN a ELSE b
Abs(a) == IF a < 0 THEN 0 - a ELSE a

\* A CLIENT_STATS message: the fields update() reads.
Stats(pending, decode_ms, backpressure, bandwidth_kbps, mode) ==
    [pending_tiles |-> pending, avg_decode_ms |-> decode_ms,
     backpressure |-> backpressure, bandwidth_kbps |-> bandwidth_kbps,
     mode |-> mode]
NoStats == Stats(0, 0, "none", 0, "none")
CalmStats == Stats(5, 5, "none", 0, "NORMAL")
HeavyStats == Stats(80, 30, "heavy", 0, "NORMAL")
MildStats == Stats(26, 10, "none", 0, "NORMAL")
BusyStats == Stats(0, 22, "none", 0, "NORMAL")
WideStats == Stats(1000000, 0 - 5, "none", 6000, "NORMAL")
EcoStats == Stats(5, 5, "none", 0, "SUPER_ECO")
StatsSet == {CalmStats, HeavyStats, MildStats, BusyStats, WideStats, EcoStats}

\* lines 103-119, in hundredths: queue_pressure = max(0, pending - 20) / 50,
\* decode_pressure = max(0, decode_ms - 10) / 20, plus 0.3 above 5000 kbps
\* and 0.5 on heavy backpressure.
QueuePressure(st) == 2 * Max2(0, st.pending_tiles - 20)
DecodePressure(st) ==
    5 * Max2(0, st.avg_decode_ms - 10)
        + (IF st.bandwidth_kbps > 5000 THEN 30 ELSE 0)
        + (IF st.backpressure = "heavy" THEN 50 ELSE 0)
TotalPressure(st) == QueuePressure(st) + DecodePressure(st)

\* A governor that raises the quality by two deadbands whatever the
\* pressure.
RaiseUnderPressure(q, total) == q + 2 * Deadband

\* lines 134-142: q / (1 + min(total, 0.5)) above 0.1, q + 2 otherwise
\* (thousandths, the quotient rounded down).
AdjustQuality(q, total) ==
    IF total > 10
    THEN (q * 100) \div (100 + Min2(total, 50))
    ELSE q + 2 * QScale

\* A governor without its clamp.
NoClamp(q, cfg) == q

\* line 145: max(min_quality, min(max_quality, new_quality))
Clamp(q, cfg) == Max2(cfg.min_q * QScale, Min2(cfg.max_q * QScale, q))

\* A governor that applies a change only on reaching a limit.
LimitsOnly(new_quality, last_applied, cfg) ==
    \/ new_quality = cfg.min_q * QScale /\ last_applied # cfg.min_q * QScale
    \/ new_quality = cfg.max_q * QScale /\ last_applied # cfg.max_q * QScale

\* lines 149-151: the change is applied beyond the deadband or on reaching
\* a limit.
Hysteresis(new_quality, last_applied, cfg) ==
    \/ Abs(new_quality - last_applied) > Deadband
    \/ new_quality = cfg.min_q * QScale /\ last_applied # cfg.min_q * QScale
    \/ new_quality = cfg.max_q * QScale /\ last_applied # cfg.max_q * QScale

\* lines 161-166
TileSize(current, st) ==
    IF DecodePressure(st) > 50
    THEN (IF DecodePressure(st) > 80 THEN 512 ELSE 256)
    ELSE IF TotalPressure(st) < 5 THEN DefaultTile ELSE current

NoGovernor ==
    [mode |-> "none", target_fps |-> 0, current_quality |-> 0,
     last_applied_quality |-> 0, current_tile_size |-> 0, last_update_time |-> 0]

\* AdaptiveGovernor.__init__ with tier AIR at time t
NewGovernor(mode, t) ==
    [mode |-> mode, target_fps |-> AirFps,
     current_quality |-> ModeCfg(mode).target_q * QScale,
     last_applied_quality |-> ModeCfg(mode).target_q * QScale,
     current_tile_size |-> DefaultTile, last_update_time |-> t]

\* line 77: the update is taken when the window has passed
Accepted(g, t) == t - g.last_update_time >= RateLimit

\* AdaptiveGovernor.update at time t
update(g, st, t) ==
    IF ~Accepted(g, t) THEN g
    ELSE LET cfg == ModeCfg(g.mode)
             new_quality == Clamp(AdjustQuality(g.current_quality, TotalPressure(st)), cfg)
             apply == Hysteresis(new_quality, g.last_applied_quality, cfg)
         IN [g EXCEPT
               !.target_fps = IF st.mode = "SUPER_ECO" THEN EcoFps ELSE AirFps,
               !.current_quality = IF apply THEN new_quality ELSE @,
               !.last_applied_quality = IF apply THEN new_quality ELSE @,
               !.current_tile_size = TileSize(@, st),
               !.last_update_time = t]

\* get_quality: int(self.current_quality)
get_quality(g) == g.current_quality \div QScale

\* StreamEngine.__init__: encoder quality of config, tile size 128, no
\* frame_rate attribute (the broadcast loop reads 20 then).
NewEngineParams == [quality |-> WebpQuality, tile_size |-> DefaultTile, frame_rate |-> AirFps]

\* lines 223-226 of _ws_handler
ApplyToEngine(g) ==
    [quality |-> get_quality(g), tile_size |-> g.current_tile_size,
     frame_rate |-> g.target_fps]

NoRun == [calm |-> 0, pressed |-> 0]

\* The accepted updates in a row: calm ones (pressure at most 0.1) since
\* the governor was built or since the last pressed one, then pressed ones.
Count(r, st) ==
    IF TotalPressure(st) > 10
    THEN [r EXCEPT !.pressed = Min2(@ + 1, ScenarioPressed + 1)]
    ELSE IF r.pressed > 0 THEN [calm |-> 1, pressed |-> 0]
         ELSE [r EXCEPT !.calm = Min2(@ + 1, ScenarioCalm + 1)]

\* ---------------------------------------------------------- partitioner
\* A ScreenFrame: width, height and the NumPy array, a pixel value for
\* every <<x, y>> (streamable.py lines 56-67).
Coords(w, h) == (0..(w - 1)) \X (0..(h - 1))
Pixels == 0..MaxPixel
NoFrame == [width |-> 0, height |-> 0, px |-> <<>>]
FramesOf(w, h) == {[width |-> w, height |-> h, px |-> p] : p \in [Coords(w, h) -> Pixels]}
Dimensions == {d \in (1..MaxWidth) \X (1..MaxHeight) : d[1] * d[2] <= MaxArea}
Frames == UNION {FramesOf(d[1], d[2]) : d \in Dimensions}

\* ndarray.shape: (height, width, channels), three channels in every frame
Shape(f) == <<f.height, f.width, 3>>

\* The tile sizes the engine hands to the partitioner; the partitioner is
\* built with the smallest one (frames here are a few pixels wide, tile
\* sizes are scaled alike).
TileSizes == 1..MaxTile
PartitionerTile == 1
KeyWidth == 2

\* arr[y:y+h, x:x+w]: the pixels of the rectangle that lie in the array,
\* here with the coordinates they have in the frame
Slice(f, x, y, w, h) ==
    [c \in {d \in DOMAIN f.px : d[1] \in x..(x + w - 1) /\ d[2] \in y..(y + h - 1)} |-> f.px[c]]

\* ScreenFrame.get_tile, NumPy path
get_tile(f, x, y, w, h) ==
    [x |-> x, y |-> y, width |-> w, height |-> h, np_data |-> Slice(f, x, y, w, h)]

\* range(0, stop, step) as a list
RangeSeq(stop, step) == [i \in 1..((stop + step - 1) \div step) |-> (i - 1) * step]

DeltaFrame(frame_number, changed_tiles, full_frame_fallback) ==
    [frame_number |-> frame_number, changed_tiles |-> changed_tiles,
     full_frame_fallback |-> full_frame_fallback]
NoDelta == DeltaFrame(0 - 1, <<>>, FALSE)

\* TilePartitioner.__init__ as the engine calls it (engine.py line 27)
NewPartitioner == [tile_size |-> PartitionerTile, last_frame_np |-> NoFrame, frame_number |-> 0]

\* line 42: no reference yet, or a reference of another shape
OnlyFirstFrame(ref, frame) == ref # NoFrame
ReferenceOfShape(ref, frame) == ref # NoFrame /\ Shape(ref) = Shape(frame)
NeedsFullFrame(ref, frame) == ~ReferenceOfShape(ref, frame)

\* lines 46 and 80: the single tile of the whole frame
WholeFrameTile(frame) == get_tile(frame, 0, 0, frame.width, frame.height)

\* lines 52-65 for one y: the cells of the row, left to right, trimmed to
\* the frame, and of them those whose pixels differ from the reference's
RowCells(frame, y, tile_size) ==
    LET xs == RangeSeq(frame.width, tile_size)
    IN [i \in 1..Len(xs) |->
          get_tile(frame, xs[i], y, Min2(tile_size, frame.width - xs[i]),
                   Min2(tile_size, frame.height - y))]
Differs(t, ref) == t.np_data # Slice(ref, t.x, t.y, t.width, t.height)
RowTiles(frame, ref, y, tile_size) ==
    SelectSeq(RowCells(frame, y, tile_size), LAMBDA t : Differs(t, ref))

NoWork == [pc |-> "idle", frame |-> NoFrame, ys |-> <<>>, changed_tiles |-> <<>>]
NoGiven == [op |-> "none", frame |-> NoFrame, ref |-> NoFrame, tile_size |-> 0, raced |-> FALSE]
Given(op, frame) ==
    [op |-> op, frame |-> frame, ref |-> partitioner.last_frame_np,
     tile_size |-> partitioner.tile_size, raced |-> FALSE]

\* -------------------------------------------------------------- encoder
\* b"", and the payload of a delta: tag, timestamp, the full-frame form or
\* the tile table with the encoded data of every tile (encoder.py lines
\* 83-116)
EmptyBytes == [tag |-> 0, timestamp_ms |-> 0, full |-> FALSE, tiles |-> <<>>]
TileEntry(t) == [x |-> t.x, y |-> t.y, width |-> t.width, height |-> t.height,
                 data |-> t.np_data]

\* _encode_tile of every tile of the delta (lines 93 and 103-108): the
\* codec raises on the tiles whose index is in rejected, and the first
\* exception leaves encode
EncodeRaises(d, rejected) == \E i \in 1..Len(d.changed_tiles) : i \in rejected

\* WebPEncoder.encode
encode_delta(d, rejected, t) ==
    IF d.full_frame_fallback /\ Len(d.changed_tiles) # 1
    THEN [raised |-> FALSE, bytes |-> EmptyBytes]
    ELSE IF EncodeRaises(d, rejected)
    THEN [raised |-> TRUE, bytes |-> EmptyBytes]
    ELSE [raised |-> FALSE,
          bytes |-> [tag |-> TagDelta, timestamp_ms |-> t * 1000,
                     full |-> d.full_frame_fallback,
                     tiles |-> [i \in 1..Len(d.changed_tiles) |->
                                   TileEntry(d.changed_tiles[i])]]]

\* The client's screen_buffer after a payload: a full frame of another size
\* replaces the buffer, then every tile that fits is pasted (client_ui.py
\* lines 52-66)
Fits(t, buf) == t.x + t.width <= buf.width /\ t.y + t.height <= buf.height
Paste(buf, bytes) ==
    LET first == bytes.tiles[1]
        b0 == IF bytes.full /\ Len(bytes.tiles) = 1
                 /\ <<buf.width, buf.height>> # <<first.width, first.height>>
              THEN [width |-> first.width, height |-> first.height,
                    px |-> [c \in Coords(first.width, first.height) |-> 0]]
              ELSE buf
        over(c) == {i \in 1..Len(bytes.tiles) :
                       Fits(bytes.tiles[i], b0) /\ c \in DOMAIN bytes.tiles[i].data}
    IN IF bytes.tiles = <<>> THEN buf
       ELSE [b0 EXCEPT !.px = [c \in DOMAIN b0.px |->
                IF over(c) = {} THEN b0.px[c]
                ELSE bytes.tiles[CHOOSE i \in over(c) : \A j \in over(c) : j <= i].data[c]]]

NoView == [member |-> FALSE, screen_buffer |-> NoFrame, keyframe |-> EmptyBytes]

NoWire == [pc |-> "idle", delta |-> NoDelta, rejected |-> {}, raised |-> FALSE,
           payload |-> EmptyBytes, broadcast |-> EmptyBytes]

\* --------------------------------------------------------------- engine
\* The tasks that call one StreamEngine: its broadcast loop
\* (get_next_payload), a connection handler (get_initial_payload) and the
\* task that stops it.
EngCallers == {"loop", "join", "stop"}

\* The frames the engine's monitor yields
ScreenFrames == FramesOf(1, 1)

\* StreamEngine.__init__ lines 46-48; native_ref and native_force are the
\* reference frame and the refresh flag kept inside the native capturer
NoEngine ==
    [backend |-> "none", lock |-> "free", last_frame |-> NoFrame, capture_iter |-> FALSE,
     stopped |-> FALSE, native_ref |-> NoFrame, native_force |-> FALSE]
NewEngine(backend) == [NoEngine EXCEPT !.backend = backend]

NoEngCall == [pc |-> "idle", force_full |-> FALSE, frame |-> NoFrame, result |-> "none"]

Init ==
    /\ now = 0
    /\ nativeCore \in BOOLEAN
    /\ cfgOptimize \in BOOLEAN
    /\ (cfgOptimize => nativeCore)
    /\ ctorMayThrow \in BOOLEAN
    /\ cfgMonitor = Monitor
    /\ persisted = NoFile
    /\ engines = [m \in Monitors |-> 0]
    /\ slots = [s \in SlotIds |-> NoSlot]
    /\ nextSlot = 0
    /\ backend_blacklist = [m \in Monitors |-> NoTime]
    /\ engine_lock = 0
    /\ goe = [t \in Tasks |-> NoCall]
    /\ hnd = [v \in Viewers |-> NoHandler]
    /\ open = [v \in Viewers |-> FALSE]
    /\ loop = [s \in SlotIds |-> NoLoop]
    /\ clients_sending = {}
    /\ deltaPending = [v \in Viewers |-> 0]
    /\ sent = [v \in Viewers |-> <<>>]
    /\ governor = NoGovernor
    /\ engine_params = NewEngineParams
    /\ reported = [v \in Viewers |-> NoStats]
    /\ fed = [by |-> 0, stats |-> NoStats]
    /\ govClock = 0
    /\ run = NoRun
    /\ partitioner = NewPartitioner
    /\ work = NoWork
    /\ delta = NoDelta
    /\ given = NoGiven
    /\ streamEngine = NoEngine
    /\ call = [c \in EngCallers |-> NoEngCall]
    /\ owed = {}
    /\ wire = NoWire
    /\ view = [v \in Viewers |-> NoView]

\* ------------------------------------------------------------- registry
Registered == {engines[m] : m \in Monitors} \ {0}

\* lines 81-84: a monitor inside its cool-down forces compat mode.
InCoolDown(m) ==
    /\ backend_blacklist[m] # NoTime
    /\ now - backend_blacklist[m] < CoolDown

\* The force flag as the caller passed it, cool-down ignored.
CallerFlagOnly(m, force_compat) == force_compat

ForceCompat(m, force_compat) == force_compat \/ InCoolDown(m)

\* line 96-97: cfg['server']['optimize_capture_pipeline'] of the new engine.
EngineOptimize(force_compat) == IF force_compat THEN FALSE ELSE cfgOptimize

\* CaptureFactory.create: the native capturer when velox_core imports and
\* its constructor succeeds, MSS otherwise; the optimize flag is passed on
\* to the backend and plays no part in the choice.
Backends == IF nativeCore THEN {"Rust", "MSS"} ELSE {"MSS"}

\* A registry that never notices the downgrade.
NoBlacklistTrigger(force_compat, optimize, backend) == FALSE

\* lines 112-115: native requested, MSS returned.
BlacklistTrigger(force_compat, optimize, backend) ==
    ~force_compat /\ optimize /\ backend = "MSS"

\* "clients": set() of a freshly built engine_data (line 120).
NewSlotClients(old) == {}

Cancel(lp, s) ==
    IF s # 0 /\ lp[s].pc \notin {"none", "done"}
    THEN [lp EXCEPT ![s].cancel = TRUE] ELSE lp

StartLoop(lp, s, m) ==
    [lp EXCEPT ![s] = [NoLoop EXCEPT !.pc = "top", !.mon = m, !.last_change = now]]

\* The finally clause of _ws_handler (lines 246-248): the websocket leaves
\* the viewer set of every registered engine.
DiscardEverywhere(sl, eng, v) ==
    [s \in SlotIds |->
        IF \E m \in Monitors : eng[m] = s
        THEN [sl[s] EXCEPT !.clients = @ \ {v}] ELSE sl[s]]

\* _perform_switch returns to the message loop; its locals are gone.
SwitchDone(h) ==
    [h EXCEPT !.pc = "msgs", !.target = 0, !.moved = {}, !.mids = {},
              !.queue = {}, !.old = 0]

\* What the caller does when its get_or_create_engine call returns slot r
\* (r = 0: the call raised), without suspending in between; sl, eng, hb
\* and gb are the slots, registry, handlers and calls as the step has left
\* them so far.
\* _ws_handler lines 193-199: add the websocket to the viewer set, then
\* request the initial keyframe; _perform_software_reset lines 298-301:
\* announce the recovery and return to the message loop; _perform_switch
\* lines 324-328: add the first collected viewer to the slot and send it
\* the VERSION record; an exception unwinds the handler through its
\* finally clause (lines 243-248).
ResumeFrom(t, r, sl, eng, hb, gb) ==
    /\ goe' = [gb EXCEPT ![t] =
                 IF t \in Viewers THEN NoCall
                 ELSE [gb[t] EXCEPT !.pc = IF r = 0 THEN "raised" ELSE "ret",
                                    !.ret = r]]
    /\ IF t \in Viewers
       THEN IF r = 0
            THEN /\ hnd' = [hb EXCEPT ![t].pc = "closed", ![t].dashboard = FALSE]
                 /\ slots' = DiscardEverywhere(sl, eng, t)
                 /\ open' = [open EXCEPT ![t] = FALSE]
            ELSE IF hb[t].pc = "getEngine"
            THEN /\ hnd' = [hb EXCEPT ![t].pc = "initFetch", ![t].ed = r]
                 /\ slots' = [sl EXCEPT ![r].clients = @ \cup {t}]
                 /\ open' = open
            ELSE IF hb[t].pc = "switchEngine"
            THEN /\ open' = open
                 /\ IF hb[t].queue = {}
                    THEN /\ hnd' = [hb EXCEPT ![t] = SwitchDone(@)]
                         /\ slots' = sl
                    ELSE \E c \in hb[t].queue :
                           /\ slots' = [sl EXCEPT ![r].clients = @ \cup {c}]
                           /\ hnd' = [hb EXCEPT
                                 ![t].pc = "swSend", ![t].old = r,
                                 ![t].queue = @ \ {c},
                                 ![c].version = IF open[c] THEN hb[t].target ELSE @]
            ELSE /\ hnd' = [hb EXCEPT ![t].pc = "msgs"]
                 /\ slots' = sl
                 /\ open' = open
       ELSE /\ hnd' = hb
            /\ slots' = sl
            /\ open' = open

Resume(t, r, sl, eng) == ResumeFrom(t, r, sl, eng, hnd, goe)

\* lines 107-133 of get_or_create_engine, run without suspension: build the
\* engine, blacklist on a silent downgrade, register the slot with its
\* broadcast task; on an exception blacklist and retry or propagate.
ConstructFrom(t, m, force_compat, lp, sl0, hb, gb) ==
    \/ \E backend \in Backends :
          LET s == nextSlot + 1
              optimize == EngineOptimize(force_compat)
              sl == [sl0 EXCEPT ![s] =
                        [mon |-> m, clients |-> NewSlotClients(gb[t].old),
                         force_enhancement |-> TRUE, optimize |-> optimize,
                         backend |-> backend, stopped |-> FALSE,
                         audio_task |-> "running", gov_stats |-> 0]]
              eng == [engines EXCEPT ![m] = s]
          IN /\ nextSlot < MaxSlots
             /\ nextSlot' = s
             /\ backend_blacklist' =
                   IF BlacklistTrigger(force_compat, optimize, backend)
                   THEN [backend_blacklist EXCEPT ![m] = now]
                   ELSE backend_blacklist
             /\ loop' = StartLoop(lp, s, m)
             /\ engines' = eng
             /\ engine_lock' = 0
             /\ ResumeFrom(t, s, sl, eng, hb, gb)
    \/ /\ ctorMayThrow
       /\ backend_blacklist' = [backend_blacklist EXCEPT ![m] = now]
       /\ loop' = lp
       /\ UNCHANGED <<nextSlot, engines>>
       /\ IF ~force_compat
          THEN /\ goe' = [gb EXCEPT ![t].pc = "retrySleep", ![t].force = force_compat]
               /\ engine_lock' = t
               /\ hnd' = hb
               /\ slots' = sl0
               /\ open' = open
          ELSE /\ engine_lock' = 0
               /\ ResumeFrom(t, 0, sl0, engines, hb, gb)

Construct(t, m, force_compat, lp) == ConstructFrom(t, m, force_compat, lp, slots, hnd, goe)

LockIgnored(t) == TRUE

\* async with self._engine_lock (line 78): an uncontended acquire does not
\* suspend.
AcquireLock(t) == engine_lock = 0

\* Lines 79-103, from the acquired lock up to the first await: the
\* cool-down check, the existing-slot return, the pop of the old slot.
EnterFrom(t, sl, hb, gb) ==
    LET m == gb[t].mon
        f == ForceCompat(m, gb[t].force)
        old == engines[m]
    IN IF old # 0 /\ ~f
       THEN /\ ResumeFrom(t, old, sl, engines, hb, gb)
            /\ UNCHANGED <<engines, nextSlot, backend_blacklist, engine_lock, loop>>
       ELSE IF old # 0
       THEN /\ engines' = [engines EXCEPT ![m] = 0]
            /\ loop' = Cancel(loop, old)
            /\ slots' = [sl EXCEPT ![old].audio_task = "done"]
            /\ engine_lock' = t
            /\ goe' = [gb EXCEPT ![t].pc = "stop", ![t].force = f, ![t].old = old]
            /\ hnd' = hb
            /\ open' = open
            /\ UNCHANGED <<nextSlot, backend_blacklist>>
       ELSE ConstructFrom(t, m, f, loop, sl, hb, gb)

get_or_create_engine_enter(t) ==
    /\ goe[t].pc = "lock"
    /\ AcquireLock(t)
    /\ EnterFrom(t, slots, hnd, goe)
    /\ UNCHANGED <<now, envVars, libVars, selVars, sendVars>>

\* await old["engine"].stop() (line 104)
get_or_create_engine_stopped(t) ==
    /\ goe[t].pc = "stop"
    /\ slots' = [slots EXCEPT ![goe[t].old].stopped = TRUE]
    /\ goe' = [goe EXCEPT ![t].pc = "settle"]
    /\ UNCHANGED <<now, envVars, libVars, selVars, engines, nextSlot, backend_blacklist, engine_lock,
                   hnd, open, loop, sendVars>>

\* await asyncio.sleep(0.5) (line 105), then lines 107-133
get_or_create_engine_settled(t) ==
    /\ goe[t].pc = "settle"
    /\ Construct(t, goe[t].mon, goe[t].force, loop)
    /\ UNCHANGED <<now, envVars, libVars, selVars, sendVars>>

\* lines 131-132: after the sleep the handler calls get_or_create_engine
\* again, inside the async with block of the failed call.
get_or_create_engine_retry(t) ==
    /\ goe[t].pc = "retrySleep"
    /\ goe' = [goe EXCEPT ![t].pc = "lock", ![t].force = TRUE, ![t].nested = TRUE]
    /\ UNCHANGED <<now, envVars, libVars, selVars, engines, slots, nextSlot, backend_blacklist,
                   engine_lock, hnd, open, loop, sendVars>>


\* ------------------------------------------------------------- handler
\* _ws_handler lines 178-193: read the current monitor, send VERSION, call
\* get_or_create_engine.
ws_handler_connect(v) ==
    /\ hnd[v].pc = "idle"
    /\ hnd' = [hnd EXCEPT ![v].pc = "getEngine", ![v].mon = cfgMonitor,
                          ![v].version = cfgMonitor]
    /\ open' = [open EXCEPT ![v] = TRUE]
    /\ goe' = [goe EXCEPT ![v] = [NoCall EXCEPT !.pc = "lock", !.mon = cfgMonitor]]
    /\ UNCHANGED <<now, envVars, libVars, selVars, engines, slots, nextSlot, backend_blacklist,
                   engine_lock, loop, sendVars>>

\* get_initial_payload inside the handler's wait_for (line 199): the frame
\* is captured and the encoder, in the executor, samples its timestamp.
ws_handler_init_encode(v) ==
    /\ hnd[v].pc = "initFetch"
    /\ hnd' = [hnd EXCEPT ![v].pc = "initReady",
                          ![v].payload = get_initial_payload(
                                             MonitorDims(slots[hnd[v].ed].mon), now)]
    /\ UNCHANGED <<now, envVars, libVars, selVars, regVars, open, loop, sendVars>>

\* lines 201-202: the 2 s timeout or an exception of get_initial_payload
\* is logged and the handler goes on to its message loop.
ws_handler_init_fail(v) ==
    /\ hnd[v].pc \in {"initFetch", "initReady"}
    /\ hnd' = [hnd EXCEPT ![v].pc = "msgs", ![v].payload = NoPayload]
    /\ UNCHANGED <<now, envVars, libVars, selVars, regVars, open, loop, sendVars>>

\* line 200: await websocket.send(init_frame)
ws_handler_init_send(v) ==
    /\ hnd[v].pc = "initReady"
    /\ IF open[v]
       THEN /\ sent' = [sent EXCEPT ![v] = Log(@, LogEntry("join", JoinFrame(hnd[v].payload)))]
            /\ hnd' = [hnd EXCEPT ![v].pc = "initSend", ![v].payload = NoPayload]
       ELSE /\ sent' = sent
            /\ hnd' = [hnd EXCEPT ![v].pc = "msgs", ![v].payload = NoPayload]
    /\ UNCHANGED <<now, envVars, libVars, selVars, regVars, open, loop, clients_sending, deltaPending>>

\* the send of line 200 completes or fails
ws_handler_init_sent(v) ==
    /\ hnd[v].pc = "initSend"
    /\ hnd' = [hnd EXCEPT ![v].pc = "msgs"]
    /\ UNCHANGED <<now, envVars, libVars, selVars, regVars, open, loop, sendVars>>

\* DASHBOARD_CMD FORCE_REFRESH (lines 233-235)
ws_handler_force_refresh(v) ==
    /\ hnd[v].pc = "msgs"
    /\ open[v]
    /\ slots' = [s \in SlotIds |->
                   IF s \in Registered THEN [slots[s] EXCEPT !.force_enhancement = TRUE]
                   ELSE slots[s]]
    /\ UNCHANGED <<now, envVars, libVars, selVars, engines, nextSlot, backend_blacklist, engine_lock,
                   goe, hnd, open, loop, sendVars>>

\* The same step, with the viewers of the registered engines recorded as
\* owed a keyframe.
ws_handler_force_refresh_recorded(v) ==
    /\ hnd[v].pc = "msgs"
    /\ open[v]
    /\ slots' = [s \in SlotIds |->
                   IF s \in Registered THEN [slots[s] EXCEPT !.force_enhancement = TRUE]
                   ELSE slots[s]]
    /\ owed' = owed \cup UNION {slots[s].clients : s \in Registered}
    /\ UNCHANGED <<now, envVars, objVars, pipeVars, selVars, engines, nextSlot, backend_blacklist, engine_lock,
                   goe, hnd, open, loop, sendVars>>

\* DASHBOARD_IDENT (lines 214-215): the websocket leaves the viewer set of
\* ed, the slot the handler obtained at line 193, and joins the dashboards.
ws_handler_dashboard_ident(v) ==
    /\ hnd[v].pc = "msgs"
    /\ open[v]
    /\ slots' = [slots EXCEPT ![hnd[v].ed].clients = @ \ {v}]
    /\ hnd' = [hnd EXCEPT ![v].dashboard = TRUE]
    /\ UNCHANGED <<now, envVars, libVars, selVars, engines, nextSlot, backend_blacklist,
                   engine_lock, goe, open, loop, sendVars>>

\* CLIENT_STATS (lines 216-227): the governor of ed is updated with the
\* viewer's statistics and its quality, tile size and frame rate are
\* applied to the engine of ed.
ws_handler_client_stats(v) ==
    /\ hnd[v].pc = "msgs"
    /\ open[v]
    /\ slots' = [slots EXCEPT ![hnd[v].ed].gov_stats = v]
    /\ UNCHANGED <<now, envVars, libVars, selVars, engines, nextSlot, backend_blacklist,
                   engine_lock, goe, hnd, open, loop, sendVars>>

\* A text message with a type no branch of lines 214-237 handles (or a
\* DASHBOARD_CMD with an unknown command): nothing happens.
ws_handler_unknown_type(v) ==
    /\ hnd[v].pc = "msgs"
    /\ open[v]
    /\ UNCHANGED vars

\* A text message that is not JSON: json.loads (line 213) raises inside
\* the async for, the except clause of lines 243-244 is outside it, so the
\* message loop ends and the finally clause runs.
ws_handler_malformed(v) ==
    /\ hnd[v].pc = "msgs"
    /\ open[v]
    /\ hnd' = [hnd EXCEPT ![v].pc = "closed", ![v].dashboard = FALSE,
                          ![v].err = "JSONDecodeError"]
    /\ open' = [open EXCEPT ![v] = FALSE]
    /\ slots' = DiscardEverywhere(slots, engines, v)
    /\ UNCHANGED <<now, envVars, libVars, selVars, engines, nextSlot, backend_blacklist,
                   engine_lock, goe, loop, sendVars>>

\* the connection ends: the message loop exits and the finally clause runs
\* (lines 238-248)
ws_handler_disconnect(v) ==
    /\ hnd[v].pc = "msgs"
    /\ hnd' = [hnd EXCEPT ![v].pc = "closed", ![v].dashboard = FALSE]
    /\ open' = [open EXCEPT ![v] = FALSE]
    /\ slots' = DiscardEverywhere(slots, engines, v)
    /\ UNCHANGED <<now, envVars, libVars, selVars, engines, nextSlot, backend_blacklist, engine_lock,
                   goe, loop, sendVars>>

\* --------------------------------------------------------- software reset
\* lines 268-278 on a server whose only engine is that of the configured
\* monitor: pop the slot, cancel its tasks and await engine.stop(); with no
\* slot registered go on to the purge (lines 280-298).
ResetPopOrPurge(v, sl, op) ==
    LET ed == engines[cfgMonitor]
    IN IF ed # 0
       THEN /\ engines' = [engines EXCEPT ![cfgMonitor] = 0]
            /\ loop' = Cancel(loop, ed)
            /\ slots' = [sl EXCEPT ![ed].audio_task = "done"]
            /\ hnd' = [hnd EXCEPT ![v].pc = "rsStop", ![v].queue = {}, ![v].old = ed]
            /\ open' = op
            /\ UNCHANGED <<goe, clients_sending, backend_blacklist>>
       ELSE /\ clients_sending' = {}
            /\ backend_blacklist' = [m \in Monitors |-> NoTime]
            /\ hnd' = [hnd EXCEPT ![v].pc = "resetEngine", ![v].queue = {}]
            /\ goe' = [goe EXCEPT ![v] = [NoCall EXCEPT !.pc = "lock", !.mon = cfgMonitor]]
            /\ slots' = sl
            /\ open' = op
            /\ UNCHANGED <<engines, loop>>

\* line 266 then lines 268-278: the viewer set of the registered slot is
\* cleared (a KeyError when the monitor has no slot any more ends the
\* handler), then the slot is popped.
ResetClearAndPop(v, op) ==
    LET ed == engines[cfgMonitor]
    IN IF ed = 0
       THEN /\ hnd' = [hnd EXCEPT ![v].pc = "closed", ![v].queue = {},
                                   ![v].dashboard = FALSE, ![v].err = "KeyError"]
            /\ open' = [op EXCEPT ![v] = FALSE]
            /\ UNCHANGED <<engines, loop, slots, goe, clients_sending, backend_blacklist>>
       ELSE ResetPopOrPurge(v, [slots EXCEPT ![ed].clients = {}], op)

\* DASHBOARD_CMD SOFTWARE_RESET: _perform_software_reset lines 250-264, up
\* to the first await ws.close()
perform_software_reset_start(v) ==
    /\ hnd[v].pc = "msgs"
    /\ open[v]
    /\ LET ed == engines[cfgMonitor]
           clients == IF ed = 0 THEN {} ELSE slots[ed].clients
       IN IF ed = 0
          THEN ResetPopOrPurge(v, slots, open)
          ELSE IF clients = {}
          THEN ResetClearAndPop(v, open)
          ELSE \E ws \in clients :
                 /\ open' = [open EXCEPT ![ws] = FALSE]
                 /\ hnd' = [hnd EXCEPT ![v].pc = "rsClose", ![v].queue = clients \ {ws}]
                 /\ UNCHANGED <<engines, loop, slots, goe, clients_sending,
                                backend_blacklist>>
    /\ UNCHANGED <<now, envVars, libVars, selVars, nextSlot, engine_lock, deltaPending, sent>>

\* a ws.close() of line 264 returns: the next one starts, or lines 266-278
perform_software_reset_close(v) ==
    /\ hnd[v].pc = "rsClose"
    /\ IF hnd[v].queue = {}
       THEN ResetClearAndPop(v, open)
       ELSE \E ws \in hnd[v].queue :
              /\ open' = [open EXCEPT ![ws] = FALSE]
              /\ hnd' = [hnd EXCEPT ![v].queue = @ \ {ws}]
              /\ UNCHANGED <<engines, loop, slots, goe, clients_sending,
                             backend_blacklist>>
    /\ UNCHANGED <<now, envVars, libVars, selVars, nextSlot, engine_lock, deltaPending, sent>>

\* await ed["engine"].stop() returns (line 277); lines 280-290: the
\* in-flight map and the blacklist are cleared, the cancelled tasks awaited
perform_software_reset_stopped(v) ==
    /\ hnd[v].pc = "rsStop"
    /\ slots' = [slots EXCEPT ![hnd[v].old].stopped = TRUE]
    /\ clients_sending' = {}
    /\ backend_blacklist' = [m \in Monitors |-> NoTime]
    /\ hnd' = [hnd EXCEPT ![v].pc = "rsGather"]
    /\ UNCHANGED <<now, envVars, libVars, selVars, engines, nextSlot, engine_lock, goe, open, loop,
                   deltaPending, sent>>

\* asyncio.gather of the cancelled tasks returns (line 290); after the
\* settling delay get_or_create_engine is called (lines 295-298)
perform_software_reset_gathered(v) ==
    /\ hnd[v].pc = "rsGather"
    /\ loop[hnd[v].old].pc = "done"
    /\ hnd' = [hnd EXCEPT ![v].pc = "resetEngine", ![v].old = 0]
    /\ goe' = [goe EXCEPT ![v] = [NoCall EXCEPT !.pc = "lock", !.mon = cfgMonitor]]
    /\ UNCHANGED <<now, envVars, libVars, selVars, engines, slots, nextSlot, backend_blacklist,
                   engine_lock, open, loop, sendVars>>

\* --------------------------------------------------------- monitor switch
\* _perform_switch lines 319-322, run without suspension: the selection is
\* set and persisted, then get_or_create_engine is called; its body runs
\* on at once when the registry lock is free.
SwitchSave(v, m, sl, hb) ==
    LET hb2 == [hb EXCEPT ![v].pc = "switchEngine"]
        gb == [goe EXCEPT ![v] = [NoCall EXCEPT !.pc = "lock", !.mon = m]]
    IN /\ cfgMonitor' = m
       /\ persisted' = SaveState(m)
       /\ IF AcquireLock(v)
          THEN EnterFrom(v, sl, hb2, gb)
          ELSE /\ hnd' = hb2
               /\ goe' = gb
               /\ slots' = sl
               /\ open' = open
               /\ UNCHANGED <<engines, nextSlot, backend_blacklist, engine_lock, loop>>

\* lines 312-317: the next engine other than the target is popped, its
\* tasks cancelled and its stop awaited (a KeyError when it is registered
\* no more ends the handler); after the last one lines 319-322 follow.
SwitchStopNext(v, m, mids, sl, hb) ==
    IF mids = {}
    THEN SwitchSave(v, m, sl, hb)
    ELSE \E mid \in mids :
           /\ UNCHANGED <<selVars, goe, nextSlot, backend_blacklist, engine_lock>>
           /\ IF engines[mid] = 0
              THEN /\ hnd' = [hb EXCEPT ![v].pc = "closed", ![v].dashboard = FALSE,
                                        ![v].err = "KeyError"]
                   /\ open' = [open EXCEPT ![v] = FALSE]
                   /\ slots' = DiscardEverywhere(sl, engines, v)
                   /\ UNCHANGED <<engines, loop>>
              ELSE /\ engines' = [engines EXCEPT ![mid] = 0]
                   /\ loop' = Cancel(loop, engines[mid])
                   /\ slots' = [sl EXCEPT ![engines[mid]].audio_task = "done"]
                   /\ hnd' = [hb EXCEPT ![v].pc = "swStop", ![v].old = engines[mid],
                                        ![v].mids = mids \ {mid}]
                   /\ open' = open

\* DASHBOARD_CMD SWITCH_MONITOR: _perform_switch lines 304-317, the
\* viewers of all engines are collected and their sets cleared, then the
\* engines other than the target are stopped.
perform_switch_start(v) ==
    /\ hnd[v].pc = "msgs"
    /\ open[v]
    /\ \E m \in Monitors :
         LET all == UNION {slots[s].clients : s \in Registered}
             sl == [s \in SlotIds |->
                      IF s \in Registered THEN [slots[s] EXCEPT !.clients = {}]
                      ELSE slots[s]]
             hb == [hnd EXCEPT ![v].target = m, ![v].moved = all, ![v].queue = all]
             mids == {mid \in Monitors : engines[mid] # 0 /\ mid # m}
         IN SwitchStopNext(v, m, mids, sl, hb)
    /\ UNCHANGED <<now, envVars, libVars, sendVars>>

\* await ed["engine"].stop() of line 317 returns
perform_switch_stopped(v) ==
    /\ hnd[v].pc = "swStop"
    /\ SwitchStopNext(v, hnd[v].target, hnd[v].mids,
                      [slots EXCEPT ![hnd[v].old].stopped = TRUE], hnd)
    /\ UNCHANGED <<now, envVars, libVars, sendVars>>

\* lines 325-328: the send of a VERSION record returns or fails; the next
\* collected viewer is added to the target slot and sent its record, after
\* the last one the switch is complete.
perform_switch_sent(v) ==
    /\ hnd[v].pc = "swSend"
    /\ IF hnd[v].queue = {}
       THEN /\ hnd' = [hnd EXCEPT ![v] = SwitchDone(@)]
            /\ slots' = slots
       ELSE \E c \in hnd[v].queue :
              /\ slots' = [slots EXCEPT ![hnd[v].old].clients = @ \cup {c}]
              /\ hnd' = [hnd EXCEPT
                    ![v].queue = @ \ {c},
                    ![c].version = IF open[c] THEN hnd[v].target ELSE @]
    /\ UNCHANGED <<now, envVars, libVars, selVars, engines, nextSlot, backend_blacklist,
                   engine_lock, goe, open, loop, sendVars>>

\* The process ends and the server is started again: __init__ (lines
\* 19-48) builds an empty server and _load_runtime_state restores the
\* selection from the file the last run left.
restart ==
    /\ nextSlot > 0
    /\ cfgMonitor' = LoadState(persisted, Monitor)
    /\ engines' = [m \in Monitors |-> 0]
    /\ slots' = [s \in SlotIds |-> NoSlot]
    /\ nextSlot' = 0
    /\ backend_blacklist' = [m \in Monitors |-> NoTime]
    /\ engine_lock' = 0
    /\ goe' = [t \in Tasks |-> NoCall]
    /\ hnd' = [v \in Viewers |-> NoHandler]
    /\ open' = [v \in Viewers |-> FALSE]
    /\ loop' = [s \in SlotIds |-> NoLoop]
    /\ clients_sending' = {}
    /\ deltaPending' = [v \in Viewers |-> 0]
    /\ sent' = [v \in Viewers |-> <<>>]
    /\ UNCHANGED <<now, envVars, libVars, persisted>>

\* ------------------------------------------------------ broadcast loop
\* A loop without the congestion check.
NeverCongested(clients) == FALSE

\* line 346: any(ws in self._clients_sending for ws in clients)
Congested(clients) == \E ws \in clients : ws \in clients_sending

Running(s) == loop[s].pc \notin {"none", "done"} /\ ~loop[s].cancel

AtTop(s) == loop[s].pc = "top" /\ Running(s)

\* while monitor_id in self.engines (line 334) fails: the task ends.
engine_broadcast_loop_exit(s) ==
    /\ AtTop(s)
    /\ engines[loop[s].mon] = 0
    /\ loop' = [loop EXCEPT ![s].pc = "done"]
    /\ UNCHANGED <<now, envVars, libVars, selVars, regVars, hnd, open, sendVars>>

\* lines 339-342: no viewers, one capture per second.
engine_broadcast_loop_idle(s) ==
    /\ AtTop(s)
    /\ engines[loop[s].mon] # 0
    /\ slots[engines[loop[s].mon]].clients = {}
    /\ loop' = [loop EXCEPT ![s].pc = "idleFetch", ![s].data = engines[loop[s].mon]]
    /\ UNCHANGED <<now, envVars, libVars, selVars, regVars, hnd, open, sendVars>>

\* line 340-341: the payload is dropped; an exception is swallowed by the
\* bare except, which sleeps in its turn.
engine_broadcast_loop_idle_fetched(s) ==
    /\ loop[s].pc = "idleFetch"
    /\ Running(s)
    /\ \E next \in {"idleSleep", "idleSleep2"} : loop' = [loop EXCEPT ![s].pc = next]
    /\ UNCHANGED <<now, envVars, libVars, selVars, regVars, hnd, open, sendVars>>

\* a sleep of the loop ends (lines 341, 342, 347, 378)
engine_broadcast_loop_wake(s) ==
    /\ loop[s].pc \in {"idleSleep", "idleSleep2", "skipSleep"}
    /\ Running(s)
    /\ loop' = [loop EXCEPT ![s].pc = "top"]
    /\ UNCHANGED <<now, envVars, libVars, selVars, regVars, hnd, open, sendVars>>

\* lines 346-348: congestion skip, sleep 10 ms and start over.
engine_broadcast_loop_congested(s) ==
    /\ AtTop(s)
    /\ engines[loop[s].mon] # 0
    /\ slots[engines[loop[s].mon]].clients # {}
    /\ Congested(slots[engines[loop[s].mon]].clients)
    /\ loop' = [loop EXCEPT ![s].pc = "skipSleep", ![s].data = engines[loop[s].mon]]
    /\ UNCHANGED <<now, envVars, libVars, selVars, regVars, hnd, open, sendVars>>

\* lines 351-352: the force flag is set, fetch a keyframe.
engine_broadcast_loop_force(s) ==
    /\ AtTop(s)
    /\ engines[loop[s].mon] # 0
    /\ LET d == engines[loop[s].mon]
       IN /\ slots[d].clients # {}
          /\ ~Congested(slots[d].clients)
          /\ slots[d].force_enhancement
          /\ loop' = [loop EXCEPT ![s].pc = "keyFetch", ![s].data = d, ![s].recovery = FALSE]
    /\ UNCHANGED <<now, envVars, libVars, selVars, regVars, hnd, open, sendVars>>

\* line 359: payload = await engine.get_next_payload()
engine_broadcast_loop_fetch(s) ==
    /\ AtTop(s)
    /\ engines[loop[s].mon] # 0
    /\ LET d == engines[loop[s].mon]
       IN /\ slots[d].clients # {}
          /\ ~Congested(slots[d].clients)
          /\ ~slots[d].force_enhancement
          /\ loop' = [loop EXCEPT ![s].pc = "fetch", ![s].data = d]
    /\ UNCHANGED <<now, envVars, libVars, selVars, regVars, hnd, open, sendVars>>

\* get_next_payload in the executor: changed tiles are encoded with the
\* timestamp sampled now, or nothing changed and the result is None.
engine_broadcast_loop_encode(s) ==
    /\ loop[s].pc = "fetch"
    /\ Running(s)
    /\ \E p \in {encode(FALSE, 1, 0, 0, now), NoPayload} :
          loop' = [loop EXCEPT ![s].pc = "fetched", ![s].payload = p]
    /\ UNCHANGED <<now, envVars, libVars, selVars, regVars, hnd, open, sendVars>>

\* get_initial_payload for a forced or recovery keyframe (lines 352, 367)
engine_broadcast_loop_key_encode(s) ==
    /\ loop[s].pc = "keyFetch"
    /\ Running(s)
    /\ loop' = [loop EXCEPT ![s].pc = "keyReady",
                            ![s].payload = AsKeyframe(get_initial_payload(
                                               MonitorDims(slots[loop[s].data].mon), now))]
    /\ UNCHANGED <<now, envVars, libVars, selVars, regVars, hnd, open, sendVars>>

\* lines 362-364: the viewers a payload is fanned out to.
FanoutTargets(clients) == {ws \in clients : ws \notin clients_sending}

\* A loop that asks for a recovery keyframe whenever the screen has been
\* static for long enough, whether or not it has sent one already.
RecoveryEveryTime(lp) == now - lp.last_change > RecoveryGap

\* line 366: not enh_sent and (time.time() - last_change > 2.0)
RecoveryDue(lp) == ~lp.enh_sent /\ now - lp.last_change > RecoveryGap

\* lines 360-372 after get_next_payload returned
engine_broadcast_loop_fanout(s) ==
    /\ loop[s].pc = "fetched"
    /\ Running(s)
    /\ LET lp == loop[s]
           targets == FanoutTargets(slots[lp.data].clients)
       IN IF lp.payload # NoPayload
          THEN /\ \A ws \in targets : deltaPending[ws] < MaxPending
               /\ clients_sending' = clients_sending \cup targets
               /\ deltaPending' = [ws \in Viewers |->
                     IF ws \in targets THEN deltaPending[ws] + 1 ELSE deltaPending[ws]]
               /\ sent' = [ws \in Viewers |->
                     IF ws \in targets /\ open[ws]
                     THEN Log(sent[ws], LogEntry("delta", lp.payload)) ELSE sent[ws]]
               /\ loop' = [loop EXCEPT ![s].pc = "top", ![s].payload = NoPayload,
                                        ![s].last_change = now, ![s].enh_sent = FALSE]
          ELSE /\ UNCHANGED sendVars
               /\ IF RecoveryDue(lp)
                  THEN loop' = [loop EXCEPT ![s].pc = "keyFetch", ![s].recovery = TRUE]
                  ELSE loop' = [loop EXCEPT ![s].pc = "top"]
    /\ UNCHANGED <<now, envVars, libVars, selVars, regVars, hnd, open>>

\* for ws in list(clients): await self._safe_send(ws, bytes(pkt))
\* (lines 355-357 and 370-371): the send to the current viewer ends (a
\* cancellation of the task ends it too and is swallowed by _safe_send),
\* the next viewer's send starts; after the last one the flags are set.
engine_broadcast_loop_key_send(s) ==
    /\ \/ loop[s].pc = "keyReady" /\ Running(s)
       \/ loop[s].pc = "keySend"
    /\ LET lp == loop[s]
           q0 == IF lp.pc = "keyReady" THEN slots[lp.data].clients ELSE lp.queue
           cs0 == IF lp.cur # 0 THEN clients_sending \ {lp.cur} ELSE clients_sending
           closed == {v \in q0 : ~open[v]}
           q1 == q0 \ closed
       IN /\ clients_sending' = cs0 \ closed
          /\ IF q1 = {}
             THEN /\ loop' = [loop EXCEPT ![s].pc = "top", ![s].payload = NoPayload,
                                           ![s].enh_sent = TRUE, ![s].queue = {},
                                           ![s].cur = 0, ![s].cancel = FALSE,
                                           ![s].recovery = FALSE]
                  /\ slots' = IF lp.recovery THEN slots
                              ELSE [slots EXCEPT ![lp.data].force_enhancement = FALSE]
                  /\ sent' = sent
                  /\ owed' = owed
             ELSE \E v \in q1 :
                  /\ sent' = [sent EXCEPT ![v] = Log(@, LogEntry("key", lp.payload))]
                  /\ owed' = owed \ {v}
                  /\ loop' = [loop EXCEPT ![s].pc = "keySend", ![s].queue = q1 \ {v},
                                           ![s].cur = v, ![s].cancel = FALSE]
                  /\ slots' = slots
    /\ UNCHANGED <<now, envVars, objVars, pipeVars, selVars, engines, nextSlot, backend_blacklist, engine_lock,
                   goe, hnd, open, deltaPending>>

\* A capture fault can surface from the MSS grab of the legacy path; the
\* native capturer's generator swallows its own errors.
FaultPossible(s) == slots[s].backend = "MSS"

\* lines 373-377: a known driver fault schedules the rebuild and ends the
\* loop.
engine_broadcast_loop_fault(s) ==
    /\ loop[s].pc \in {"fetch", "keyFetch"}
    /\ Running(s)
    /\ FaultPossible(loop[s].data)
    /\ goe[RebuildTask(s)].pc = "none"
    /\ loop' = [loop EXCEPT ![s].pc = "done"]
    /\ goe' = [goe EXCEPT ![RebuildTask(s)] =
                 [NoCall EXCEPT !.pc = "lock", !.mon = loop[s].mon, !.force = TRUE]]
    /\ UNCHANGED <<now, envVars, libVars, selVars, engines, slots, nextSlot, backend_blacklist,
                   engine_lock, hnd, open, sendVars>>

\* line 378: any other exception, sleep 0.1 s and go on.
engine_broadcast_loop_error(s) ==
    /\ loop[s].pc \in {"fetch", "keyFetch"}
    /\ Running(s)
    /\ loop' = [loop EXCEPT ![s].pc = "top"]
    /\ UNCHANGED <<now, envVars, libVars, selVars, regVars, hnd, open, sendVars>>

\* task.cancel() reaches the loop at the await it is suspended in: the
\* bare except of the no-viewer branch (line 341) swallows it once, every
\* other await unwinds to line 379.
engine_broadcast_loop_cancelled(s) ==
    /\ loop[s].cancel
    /\ loop[s].pc \in {"top", "idleFetch", "idleSleep", "idleSleep2", "skipSleep",
                        "fetch", "fetched", "keyFetch", "keyReady"}
    /\ loop' = IF loop[s].pc \in {"idleFetch", "idleSleep"}
               THEN [loop EXCEPT ![s].pc = "idleSleep2", ![s].cancel = FALSE]
               ELSE [loop EXCEPT ![s].pc = "done", ![s].cancel = FALSE,
                                 ![s].payload = NoPayload]
    /\ UNCHANGED <<now, envVars, libVars, selVars, regVars, hnd, open, sendVars>>

\* A send guard that forgets its entry.
SafeSendLeaks(cs, ws) == cs

\* line 483: finally: self._clients_sending.pop(websocket, None)
SafeSendFinally(cs, ws) == cs \ {ws}

\* _safe_send (lines 477-483) of a spawned send ends, by success, timeout
\* or error: the finally clause pops the viewer's entry.
safe_send_done(v) ==
    /\ deltaPending[v] > 0
    /\ deltaPending' = [deltaPending EXCEPT ![v] = @ - 1]
    /\ clients_sending' = SafeSendFinally(clients_sending, v)
    /\ UNCHANGED <<now, envVars, libVars, selVars, regVars, hnd, open, loop, sent>>

Tick ==
    /\ now < MaxTicks * TickStep
    /\ now' = now + TickStep
    /\ UNCHANGED <<envVars, libVars, selVars, regVars, hnd, open, loop, sendVars>>

\* ------------------------------------------------------- specifications
\* The whole server.
Next ==
    \/ \E t \in Tasks :
          \/ get_or_create_engine_enter(t)
          \/ get_or_create_engine_stopped(t)
          \/ get_or_create_engine_settled(t)
          \/ get_or_create_engine_retry(t)
    \/ \E v \in Viewers :
          \/ ws_handler_connect(v)
          \/ ws_handler_init_encode(v)
          \/ ws_handler_init_fail(v)
          \/ ws_handler_init_send(v)
          \/ ws_handler_init_sent(v)
          \/ ws_handler_force_refresh(v)
          \/ ws_handler_disconnect(v)
          \/ safe_send_done(v)
          \/ perform_software_reset_start(v)
          \/ perform_software_reset_close(v)
          \/ perform_software_reset_stopped(v)
          \/ perform_software_reset_gathered(v)
    \/ \E s \in SlotIds :
          \/ engine_broadcast_loop_exit(s)
          \/ engine_broadcast_loop_idle(s)
          \/ engine_broadcast_loop_idle_fetched(s)
          \/ engine_broadcast_loop_wake(s)
          \/ engine_broadcast_loop_congested(s)
          \/ engine_broadcast_loop_force(s)
          \/ engine_broadcast_loop_fetch(s)
          \/ engine_broadcast_loop_encode(s)
          \/ engine_broadcast_loop_key_encode(s)
          \/ engine_broadcast_loop_fanout(s)
          \/ engine_broadcast_loop_key_send(s)
          \/ engine_broadcast_loop_fault(s)
          \/ engine_broadcast_loop_error(s)
          \/ engine_broadcast_loop_cancelled(s)
    \/ Tick

Spec == Init /\ [][Next]_vars

\* Viewers joining and leaving one engine on a host where the native core
\* loads, no capture optimisation is configured and neither construction
\* nor capture fails: the connection handler, the broadcast loop and the
\* sends.
InitJoin ==
    /\ Init
    /\ nativeCore
    /\ ~cfgOptimize
    /\ ~ctorMayThrow

NextJoin ==
    \/ \E v \in Viewers :
          \/ get_or_create_engine_enter(v)
          \/ ws_handler_connect(v)
          \/ ws_handler_init_encode(v)
          \/ ws_handler_init_fail(v)
          \/ ws_handler_init_send(v)
          \/ ws_handler_init_sent(v)
          \/ ws_handler_force_refresh(v)
          \/ ws_handler_disconnect(v)
          \/ safe_send_done(v)
    \/ \E s \in SlotIds :
          \/ engine_broadcast_loop_idle(s)
          \/ engine_broadcast_loop_idle_fetched(s)
          \/ engine_broadcast_loop_wake(s)
          \/ engine_broadcast_loop_congested(s)
          \/ engine_broadcast_loop_force(s)
          \/ engine_broadcast_loop_fetch(s)
          \/ engine_broadcast_loop_encode(s)
          \/ engine_broadcast_loop_key_encode(s)
          \/ engine_broadcast_loop_fanout(s)
          \/ engine_broadcast_loop_key_send(s)
          \/ engine_broadcast_loop_error(s)
    \/ Tick

SpecJoin == InitJoin /\ [][NextJoin]_vars

\* The engine registry: every caller of get_or_create_engine (connection
\* handlers and the rebuild a faulting loop schedules), the blacklist and
\* the clock.  The sends, which read and write nothing of
\* the registry, are left out: a joining viewer's keyframe request ends by
\* its failure branch and a loop's fetch by a fault or an error.
NextRegistry ==
    \/ \E t \in Tasks :
          \/ get_or_create_engine_enter(t)
          \/ get_or_create_engine_stopped(t)
          \/ get_or_create_engine_settled(t)
          \/ get_or_create_engine_retry(t)
    \/ \E v \in Viewers :
          \/ ws_handler_connect(v)
          \/ ws_handler_init_fail(v)
          \/ ws_handler_disconnect(v)
    \/ \E s \in SlotIds :
          \/ engine_broadcast_loop_exit(s)
          \/ engine_broadcast_loop_idle(s)
          \/ engine_broadcast_loop_idle_fetched(s)
          \/ engine_broadcast_loop_wake(s)
          \/ engine_broadcast_loop_force(s)
          \/ engine_broadcast_loop_fault(s)
          \/ engine_broadcast_loop_error(s)
          \/ engine_broadcast_loop_cancelled(s)
    \/ Tick

SpecRegistry == Init /\ [][NextRegistry]_vars

\* The registry with the software reset and without capture faults: the
\* connection handlers and the resets they run are the only callers of
\* get_or_create_engine.
NextCoolDown ==
    \/ \E v \in Viewers :
          \/ get_or_create_engine_enter(v)
          \/ get_or_create_engine_stopped(v)
          \/ get_or_create_engine_settled(v)
          \/ get_or_create_engine_retry(v)
          \/ ws_handler_connect(v)
          \/ ws_handler_init_fail(v)
          \/ ws_handler_disconnect(v)
          \/ perform_software_reset_start(v)
          \/ perform_software_reset_close(v)
          \/ perform_software_reset_stopped(v)
          \/ perform_software_reset_gathered(v)
    \/ \E s \in SlotIds :
          \/ engine_broadcast_loop_exit(s)
          \/ engine_broadcast_loop_idle(s)
          \/ engine_broadcast_loop_idle_fetched(s)
          \/ engine_broadcast_loop_wake(s)
          \/ engine_broadcast_loop_cancelled(s)
    \/ Tick

SpecCoolDown == Init /\ [][NextCoolDown]_vars

\* Monitor switches and joins on a host where engine construction
\* succeeds and no blacklist arises.
NextSwitch ==
    \/ \E v \in Viewers :
          \/ get_or_create_engine_enter(v)
          \/ ws_handler_connect(v)
          \/ ws_handler_init_fail(v)
          \/ ws_handler_disconnect(v)
          \/ perform_switch_start(v)
          \/ perform_switch_stopped(v)
          \/ perform_switch_sent(v)
    \/ \E s \in SlotIds : engine_broadcast_loop_cancelled(s)

SpecSwitch == InitJoin /\ [][NextSwitch]_vars

\* The messages of a session (DASHBOARD_IDENT, CLIENT_STATS, unknown and
\* malformed ones) with monitor switches, on the same host.
NextSession ==
    \/ \E v \in Viewers :
          \/ get_or_create_engine_enter(v)
          \/ ws_handler_connect(v)
          \/ ws_handler_init_fail(v)
          \/ ws_handler_dashboard_ident(v)
          \/ ws_handler_client_stats(v)
          \/ ws_handler_unknown_type(v)
          \/ ws_handler_malformed(v)
          \/ perform_switch_start(v)
          \/ perform_switch_stopped(v)
          \/ perform_switch_sent(v)
    \/ \E s \in SlotIds : engine_broadcast_loop_cancelled(s)

SpecSession == InitJoin /\ [][NextSession]_vars

\* The selection across runs of the server: monitor switches and restarts.
NextPersist ==
    \/ \E v \in Viewers :
          \/ get_or_create_engine_enter(v)
          \/ ws_handler_connect(v)
          \/ ws_handler_init_fail(v)
          \/ perform_switch_start(v)
          \/ perform_switch_stopped(v)
          \/ perform_switch_sent(v)
    \/ \E s \in SlotIds : engine_broadcast_loop_cancelled(s)
    \/ restart

SpecPersist == InitJoin /\ [][NextPersist]_vars

\* The software reset under fair scheduling, on the host of InitJoin: what
\* the event loop runs (the registry calls, the reset's awaits, the join
\* keyframe's wait_for, every step of a broadcast loop) is taken when it
\* stays enabled; what a client may or may not do (connect, identify as
\* dashboard, command a reset, disconnect) is not.  A loop that finds
\* viewers in its set is followed no further: it stays in its while loop.
NextReset ==
    \/ \E v \in Viewers :
          \/ get_or_create_engine_enter(v)
          \/ ws_handler_connect(v)
          \/ ws_handler_init_fail(v)
          \/ ws_handler_dashboard_ident(v)
          \/ ws_handler_disconnect(v)
          \/ perform_software_reset_start(v)
          \/ perform_software_reset_close(v)
          \/ perform_software_reset_stopped(v)
          \/ perform_software_reset_gathered(v)
    \/ \E s \in SlotIds :
          \/ engine_broadcast_loop_exit(s)
          \/ engine_broadcast_loop_idle(s)
          \/ engine_broadcast_loop_idle_fetched(s)
          \/ engine_broadcast_loop_wake(s)
          \/ engine_broadcast_loop_cancelled(s)

FairReset ==
    /\ \A v \in Viewers :
          /\ WF_vars(get_or_create_engine_enter(v))
          /\ WF_vars(ws_handler_init_fail(v))
          /\ WF_vars(perform_software_reset_close(v))
          /\ WF_vars(perform_software_reset_stopped(v))
          /\ WF_vars(perform_software_reset_gathered(v))
    /\ \A s \in SlotIds :
          /\ WF_vars(engine_broadcast_loop_exit(s))
          /\ WF_vars(engine_broadcast_loop_idle(s))
          /\ WF_vars(engine_broadcast_loop_idle_fetched(s))
          /\ WF_vars(engine_broadcast_loop_wake(s))
          /\ WF_vars(engine_broadcast_loop_cancelled(s))

SpecReset == InitJoin /\ [][NextReset]_vars /\ FairReset

\* The spawned sends under fair scheduling, on the host of InitJoin: the
\* wait_for of line 480 ends every guarded send within a second, so a
\* pending guard always gets to its finally clause.  Nothing else is
\* required to happen.
NextSend ==
    \/ \E v \in Viewers :
          \/ get_or_create_engine_enter(v)
          \/ ws_handler_connect(v)
          \/ ws_handler_init_fail(v)
          \/ ws_handler_disconnect(v)
          \/ safe_send_done(v)
    \/ \E s \in SlotIds :
          \/ engine_broadcast_loop_idle(s)
          \/ engine_broadcast_loop_idle_fetched(s)
          \/ engine_broadcast_loop_wake(s)
          \/ engine_broadcast_loop_congested(s)
          \/ engine_broadcast_loop_force(s)
          \/ engine_broadcast_loop_fetch(s)
          \/ engine_broadcast_loop_encode(s)
          \/ engine_broadcast_loop_key_encode(s)
          \/ engine_broadcast_loop_fanout(s)
          \/ engine_broadcast_loop_key_send(s)

FairSend == \A v \in Viewers : WF_vars(safe_send_done(v))

SpecSend == InitJoin /\ [][NextSend]_vars /\ FairSend

\* Late joins under fair scheduling, on the host of InitJoin: time passes,
\* the registry calls and the guarded sends end and every broadcast loop
\* takes its next step.  What the screen shows (a fetch returns changed
\* tiles or none) and what clients do is left open.
NextLate ==
    \/ NextSend
    \/ Tick

FairLate ==
    /\ FairSend
    /\ WF_vars(Tick)
    /\ \A v \in Viewers : WF_vars(get_or_create_engine_enter(v))
    /\ \A s \in SlotIds :
          /\ WF_vars(engine_broadcast_loop_idle(s))
          /\ WF_vars(engine_broadcast_loop_idle_fetched(s))
          /\ WF_vars(engine_broadcast_loop_wake(s))
          /\ WF_vars(engine_broadcast_loop_congested(s))
          /\ WF_vars(engine_broadcast_loop_force(s))
          /\ WF_vars(engine_broadcast_loop_fetch(s))
          /\ WF_vars(engine_broadcast_loop_encode(s))
          /\ WF_vars(engine_broadcast_loop_key_encode(s))
          /\ WF_vars(engine_broadcast_loop_fanout(s))
          /\ WF_vars(engine_broadcast_loop_key_send(s))

SpecLate == InitJoin /\ [][NextLate]_vars /\ FairLate

\* FORCE_REFRESH under fair scheduling, on the host of InitJoin and within
\* one tick of the clock: viewers join, any connection in its message loop
\* sends the command at any time, the registry calls and the guarded sends
\* end and every broadcast loop takes its next step.
NextRefresh ==
    \/ NextSend
    \/ \E v \in Viewers : ws_handler_force_refresh_recorded(v)

FairRefresh ==
    /\ FairSend
    /\ \A v \in Viewers : WF_vars(get_or_create_engine_enter(v))
    /\ \A s \in SlotIds :
          /\ WF_vars(engine_broadcast_loop_idle(s))
          /\ WF_vars(engine_broadcast_loop_idle_fetched(s))
          /\ WF_vars(engine_broadcast_loop_wake(s))
          /\ WF_vars(engine_broadcast_loop_congested(s))
          /\ WF_vars(engine_broadcast_loop_force(s))
          /\ WF_vars(engine_broadcast_loop_fetch(s))
          /\ WF_vars(engine_broadcast_loop_encode(s))
          /\ WF_vars(engine_broadcast_loop_key_encode(s))
          /\ WF_vars(engine_broadcast_loop_fanout(s))
          /\ WF_vars(engine_broadcast_loop_key_send(s))

SpecRefresh == InitJoin /\ [][NextRefresh]_vars /\ FairRefresh

\* ------------------------------------------------------------- governor
\* get_or_create_engine line 116: the governor of a new engine is built
\* with the mode of the configuration.
governor_init(mode) ==
    /\ governor = NoGovernor
    /\ governor' = NewGovernor(mode, govClock)
    /\ UNCHANGED <<srvVars, partVars, engVars, engine_params, reported, fed, govClock, run>>

\* CLIENT_STATS of viewer v (lines 216-227): the engine's governor is
\* updated with the message and its values are written to the engine.
governor_client_stats(v, st) ==
    /\ governor # NoGovernor
    /\ governor' = update(governor, st, govClock)
    /\ engine_params' = ApplyToEngine(governor')
    /\ reported' = [reported EXCEPT ![v] = st]
    /\ fed' = [by |-> v, stats |-> st]
    /\ run' = IF Accepted(governor, govClock) THEN Count(run, st) ELSE run
    /\ UNCHANGED <<srvVars, partVars, engVars, govClock>>

\* time passes on the governor's host
governor_clock(step, last) ==
    /\ govClock + step <= last
    /\ govClock' = govClock + step
    /\ UNCHANGED <<srvVars, partVars, engVars, governor, engine_params, reported, fed, run>>

\* One engine's governor fed by the CLIENT_STATS of the engine's viewers,
\* in any mode, with any of the messages of StatsSet at any time.
NextGovernor ==
    \/ \E mode \in Modes : governor_init(mode)
    \/ \E v \in Viewers : \E st \in StatsSet : governor_client_stats(v, st)
    \/ governor_clock(GovStep, MaxGovTime)

SpecGovernor == InitJoin /\ [][NextGovernor]_vars

\* The feed scenario: a BALANCED governor, one viewer, calm ticks and then
\* heavy ticks, a tick every 500 ms (and messages in between, which the
\* governor drops).
scenario_calm ==
    /\ run.pressed = 0
    /\ run.calm < ScenarioCalm
    /\ governor_client_stats(1, CalmStats)

scenario_heavy ==
    /\ run.pressed < ScenarioPressed
    /\ governor_client_stats(1, HeavyStats)

NextScenario ==
    \/ governor_init("BALANCED")
    \/ scenario_calm
    \/ scenario_heavy
    \/ governor_clock(ScenarioStep, (ScenarioCalm + ScenarioPressed + 1) * ScenarioStep)

SpecScenario == InitJoin /\ [][NextScenario]_vars

\* The recovery scenario: a governor of any mode, one viewer whose ticks
\* report pressure (mild or heavy) first and slack from then on, a tick
\* every 500 ms.
recover_pressed(st) ==
    /\ run.calm = 0
    /\ run.pressed < ScenarioPressed
    /\ TotalPressure(st) > 10
    /\ governor_client_stats(1, st)

recover_calm ==
    /\ run.pressed >= 1 \/ run.calm >= 1
    /\ run.calm < ScenarioCalm
    /\ governor_client_stats(1, CalmStats)

NextRecover ==
    \/ \E mode \in Modes : governor_init(mode)
    \/ \E st \in {HeavyStats, MildStats} : recover_pressed(st)
    \/ recover_calm
    \/ governor_clock(ScenarioStep, (ScenarioCalm + ScenarioPressed + 1) * ScenarioStep)

SpecRecover == InitJoin /\ [][NextRecover]_vars

\* ---------------------------------------------------------- partitioner
\* The engine's partitioner as the legacy path of get_next_payload drives
\* it: partition_and_detect_changes runs in an executor thread, and reads
\* self._tile_size for the outer range, then for every row again, while the
\* event loop thread handles CLIENT_STATS and sets the tile size.

\* lines 35-48 and the outer range of line 51
PartitionBegin(frame) ==
    /\ work.pc = "idle"
    /\ partitioner.frame_number < MaxFrameNo
    /\ given' = Given("partition_and_detect_changes", frame)
    /\ IF NeedsFullFrame(partitioner.last_frame_np, frame)
       THEN /\ partitioner' = [partitioner EXCEPT !.frame_number = @ + 1,
                                                  !.last_frame_np = frame]
            /\ delta' = DeltaFrame(partitioner.frame_number + 1, <<WholeFrameTile(frame)>>, TRUE)
            /\ work' = NoWork
       ELSE /\ partitioner' = [partitioner EXCEPT !.frame_number = @ + 1]
            /\ delta' = NoDelta
            /\ work' = [pc |-> "rows", frame |-> frame,
                        ys |-> RangeSeq(frame.height, partitioner.tile_size),
                        changed_tiles |-> <<>>]

partition_and_detect_changes_begin(frame) ==
    /\ PartitionBegin(frame)
    /\ UNCHANGED <<srvVars, govVars, engVars>>

\* lines 52-65 for the next y of the outer loop
partition_and_detect_changes_row ==
    /\ work.pc = "rows"
    /\ work.ys # <<>>
    /\ work' = [work EXCEPT
                  !.ys = Tail(@),
                  !.changed_tiles = @ \o RowTiles(work.frame, partitioner.last_frame_np,
                                                  Head(work.ys), partitioner.tile_size)]
    /\ UNCHANGED <<srvVars, govVars, engVars, partitioner, delta, given>>

\* lines 68-72
partition_and_detect_changes_end ==
    /\ work.pc = "rows"
    /\ work.ys = <<>>
    /\ partitioner' = [partitioner EXCEPT !.last_frame_np = work.frame]
    /\ delta' = DeltaFrame(partitioner.frame_number, work.changed_tiles, FALSE)
    /\ work' = NoWork
    /\ UNCHANGED <<srvVars, govVars, engVars, given>>

\* create_full_frame_delta, called on the event loop thread for a forced
\* keyframe (engine.py line 118) between two partition calls of the loop
create_full_frame_delta(frame) ==
    /\ work.pc = "idle"
    /\ given' = Given("create_full_frame_delta", frame)
    /\ partitioner' = [partitioner EXCEPT !.last_frame_np = frame]
    /\ delta' = DeltaFrame(0, <<WholeFrameTile(frame)>>, TRUE)
    /\ UNCHANGED <<srvVars, govVars, engVars, work>>

\* engine.tile_size = g.get_tile_size() (air_server_app.py line 226, engine.py
\* lines 54-58, tile_partitioner.py lines 23-27), on the event loop thread
tile_size_setter(value) ==
    /\ partitioner.tile_size # value
    /\ partitioner' = [partitioner EXCEPT !.tile_size = value]
    /\ given' = [given EXCEPT !.raced = @ \/ work.pc = "rows"]
    /\ UNCHANGED <<srvVars, govVars, engVars, work, delta>>

NextPartition ==
    \/ \E frame \in Frames : partition_and_detect_changes_begin(frame)
    \/ partition_and_detect_changes_row
    \/ partition_and_detect_changes_end
    \/ \E frame \in Frames : create_full_frame_delta(frame)
    \/ \E value \in TileSizes : tile_size_setter(value)

SpecPartition == InitJoin /\ [][NextPartition]_vars

\* --------------------------------------------------------------- engine
\* One StreamEngine and the tasks calling it.  The code of a call between
\* two awaits runs on the event loop thread and is one step; capture,
\* partition and encode run elsewhere and end in steps of their own.
StreamEngine_init(backend) ==
    /\ streamEngine = NoEngine
    /\ streamEngine' = NewEngine(backend)
    /\ UNCHANGED <<srvVars, govVars, partVars, call>>

\* get_next_payload lines 77-101: on the Rust backend the native call is
\* handed to the executor, after force_full_refresh() if a keyframe is
\* asked for; line 113 otherwise
get_next_payload_enter(force_full) ==
    /\ streamEngine # NoEngine
    /\ call["loop"].pc = "idle"
    /\ IF streamEngine.backend = "Rust"
       THEN /\ call' = [call EXCEPT !["loop"] = [pc |-> "native", force_full |-> force_full,
                                                 frame |-> NoFrame, result |-> "none"]]
            /\ streamEngine' = [streamEngine EXCEPT !.native_force = @ \/ force_full]
       ELSE /\ call' = [call EXCEPT !["loop"] = [pc |-> "get_frame", force_full |-> force_full,
                                                 frame |-> NoFrame, result |-> "none"]]
            /\ UNCHANGED streamEngine
    /\ UNCHANGED <<srvVars, govVars, partVars>>

\* capture_delta_payload of the native capturer: it grabs a frame, compares
\* it with its own reference and returns a payload, or nothing when no tile
\* changed; lines 103-108 return that
get_next_payload_native_done(frame) ==
    /\ call["loop"].pc = "native"
    /\ LET changed == streamEngine.native_force \/ streamEngine.native_ref # frame
       IN call' = [call EXCEPT !["loop"].pc = "idle",
                               !["loop"].frame = frame,
                               !["loop"].result = IF changed THEN "payload" ELSE "None"]
    /\ streamEngine' = [streamEngine EXCEPT !.native_ref = frame, !.native_force = FALSE]
    /\ UNCHANGED <<srvVars, govVars, partVars>>

\* lines 109-113: the native call raised, the legacy path goes on
get_next_payload_native_failed ==
    /\ call["loop"].pc = "native"
    /\ call' = [call EXCEPT !["loop"].pc = "get_frame"]
    /\ UNCHANGED <<srvVars, govVars, partVars, streamEngine>>

\* _get_frame lines 61-65: the lock is taken and the capture awaited
get_frame_acquire(c) ==
    /\ call[c].pc = "get_frame"
    /\ streamEngine.lock = "free"
    /\ streamEngine' = [streamEngine EXCEPT !.lock = c, !.capture_iter = TRUE]
    /\ call' = [call EXCEPT ![c].pc = "capture"]
    /\ UNCHANGED <<srvVars, govVars, partVars>>

\* lines 113-122: the frame is there, the lock is released with the return
\* of _get_frame, last_frame is set; a forced keyframe is cut on the event
\* loop thread, a delta is handed to the executor
get_next_payload_captured(frame) ==
    /\ call["loop"].pc = "capture"
    /\ streamEngine' = [streamEngine EXCEPT !.lock = "free", !.last_frame = frame]
    /\ IF call["loop"].force_full
       THEN /\ call' = [call EXCEPT !["loop"].pc = "encode", !["loop"].frame = frame]
            /\ given' = Given("create_full_frame_delta", frame)
            /\ partitioner' = [partitioner EXCEPT !.last_frame_np = frame]
            /\ delta' = DeltaFrame(0, <<WholeFrameTile(frame)>>, TRUE)
            /\ UNCHANGED work
       ELSE /\ call' = [call EXCEPT !["loop"].pc = "partition", !["loop"].frame = frame]
            /\ UNCHANGED partVars
    /\ UNCHANGED <<srvVars, govVars>>

\* the executor thread starts partition_and_detect_changes
get_next_payload_partition ==
    /\ call["loop"].pc = "partition"
    /\ PartitionBegin(call["loop"].frame)
    /\ call' = [call EXCEPT !["loop"].pc = "partitioned"]
    /\ UNCHANGED <<srvVars, govVars, streamEngine>>

\* lines 124-133: the delta is back; it is encoded in the executor if it
\* has tiles, None is returned if not
get_next_payload_delta ==
    /\ call["loop"].pc = "partitioned"
    /\ work.pc = "idle"
    /\ IF delta.changed_tiles # <<>> \/ delta.full_frame_fallback
       THEN call' = [call EXCEPT !["loop"].pc = "encode"]
       ELSE call' = [call EXCEPT !["loop"].pc = "idle", !["loop"].result = "None"]
    /\ UNCHANGED <<srvVars, govVars, partVars, streamEngine>>

\* line 132, and line 141 for get_initial_payload
payload_encoded(c) ==
    /\ call[c].pc = "encode"
    /\ call' = [call EXCEPT ![c].pc = "idle", ![c].result = "payload"]
    /\ UNCHANGED <<srvVars, govVars, partVars, streamEngine>>

\* get_initial_payload line 137
get_initial_payload_enter ==
    /\ streamEngine # NoEngine
    /\ call["join"].pc = "idle"
    /\ call' = [call EXCEPT !["join"] = [pc |-> "get_frame", force_full |-> TRUE,
                                         frame |-> NoFrame, result |-> "none"]]
    /\ UNCHANGED <<srvVars, govVars, partVars, streamEngine>>

\* lines 137-141: the frame is there, the lock is released, last_frame is
\* set and create_full_frame_delta makes the frame the reference
get_initial_payload_captured(frame) ==
    /\ call["join"].pc = "capture"
    /\ streamEngine' = [streamEngine EXCEPT !.lock = "free", !.last_frame = frame]
    /\ partitioner' = [partitioner EXCEPT !.last_frame_np = frame]
    /\ call' = [call EXCEPT !["join"].pc = "encode", !["join"].frame = frame]
    /\ UNCHANGED <<srvVars, govVars, work, delta, given>>

\* stop lines 170-173: the lock is taken and the closing of the capture
\* generator awaited; with no generator the whole of stop is one step
stop_enter ==
    /\ streamEngine # NoEngine
    /\ call["stop"].pc = "idle"
    /\ streamEngine.lock = "free"
    /\ IF streamEngine.capture_iter
       THEN /\ streamEngine' = [streamEngine EXCEPT !.lock = "stop"]
            /\ call' = [call EXCEPT !["stop"].pc = "aclose"]
       ELSE /\ streamEngine' = [streamEngine EXCEPT !.stopped = TRUE]
            /\ UNCHANGED call
    /\ UNCHANGED <<srvVars, govVars, partVars>>

\* lines 176-182
stop_done ==
    /\ call["stop"].pc = "aclose"
    /\ streamEngine' = [streamEngine EXCEPT !.lock = "free", !.capture_iter = FALSE,
                                            !.stopped = TRUE]
    /\ call' = [call EXCEPT !["stop"].pc = "idle"]
    /\ UNCHANGED <<srvVars, govVars, partVars>>

NextEngine ==
    \/ \E backend \in {"Rust", "MSS"} : StreamEngine_init(backend)
    \/ \E force_full \in BOOLEAN : get_next_payload_enter(force_full)
    \/ \E frame \in ScreenFrames : get_next_payload_native_done(frame)
    \/ get_next_payload_native_failed
    \/ \E c \in {"loop", "join"} : get_frame_acquire(c)
    \/ \E frame \in ScreenFrames : get_next_payload_captured(frame)
    \/ get_next_payload_partition
    \/ partition_and_detect_changes_row
    \/ partition_and_detect_changes_end
    \/ get_next_payload_delta
    \/ \E c \in {"loop", "join"} : payload_encoded(c)
    \/ get_initial_payload_enter
    \/ \E frame \in ScreenFrames : get_initial_payload_captured(frame)
    \/ stop_enter
    \/ stop_done

SpecEngine == InitJoin /\ [][NextEngine]_vars

\* ------------------------------------------------------ encode pipeline
\* The legacy path of get_next_payload in the broadcast loop, one frame
\* after the other: partition, encode when the delta has tiles, then the
\* loop's fan-out or its exception handler.

\* engine.py lines 112-122 for a frame the loop captured
get_next_payload_legacy(frame) ==
    /\ wire.pc \in {"idle", "done"}
    /\ PartitionBegin(frame)
    /\ wire' = NoWire
    /\ UNCHANGED <<hostVars, govVars, engVars, view>>

\* engine.py lines 124-133: a delta without tiles gives None, any other is
\* encoded in the executor; the codec may reject tiles of it
get_next_payload_encode(rejected) ==
    /\ wire.pc = "idle"
    /\ work.pc = "idle"
    /\ delta # NoDelta
    /\ wire' = IF delta.changed_tiles # <<>> \/ delta.full_frame_fallback
               THEN LET r == encode_delta(delta, rejected, now)
                    IN [pc |-> "returned", delta |-> delta, rejected |-> rejected,
                        raised |-> r.raised, payload |-> r.bytes, broadcast |-> EmptyBytes]
               ELSE [NoWire EXCEPT !.pc = "returned", !.delta = delta]
    /\ UNCHANGED <<hostVars, objVars, view>>

\* air_server_app.py lines 359-378: a payload that is not empty goes to the
\* viewers; an exception that is not a driver fault is followed by a sleep
\* of 0.1 s and the next iteration
engine_broadcast_loop_payload ==
    /\ wire.pc = "returned"
    /\ wire' = [wire EXCEPT !.pc = "done",
                            !.broadcast = IF wire.raised THEN EmptyBytes ELSE wire.payload]
    /\ UNCHANGED <<hostVars, objVars, view>>

NextEncode ==
    \/ \E frame \in Frames : get_next_payload_legacy(frame)
    \/ partition_and_detect_changes_row
    \/ partition_and_detect_changes_end
    \/ \E rejected \in SUBSET (1..MaxArea) : get_next_payload_encode(rejected)
    \/ engine_broadcast_loop_payload

SpecEncode == InitJoin /\ [][NextEncode]_vars

\* ------------------------------------------------------ viewers' images
\* One legacy engine, its loop and the viewers that join it, with the
\* image each viewer holds.  The screens captured are KeyWidth pixels wide
\* and one high.
KeyScreens == FramesOf(KeyWidth, 1)

\* air_server_app.py lines 193-199: the viewer is added to the engine's
\* clients, get_initial_payload captures a frame, makes it the
\* partitioner's reference (tile_partitioner.py line 84) and encodes it.
ws_handler_initial_payload(v, frame) ==
    /\ ~view[v].member
    /\ work.pc = "idle"
    /\ partitioner' = [partitioner EXCEPT !.last_frame_np = frame]
    /\ view' = [view EXCEPT ![v].member = TRUE,
                            ![v].keyframe = encode_delta(
                                DeltaFrame(0, <<WholeFrameTile(frame)>>, TRUE), {}, now).bytes]
    /\ UNCHANGED <<hostVars, govVars, engVars, work, delta, given, wire>>

\* line 200: await websocket.send(init_frame), pasted by the client
ws_handler_initial_sent(v) ==
    /\ view[v].keyframe # EmptyBytes
    /\ view' = [view EXCEPT ![v].keyframe = EmptyBytes,
                            ![v].screen_buffer = Paste(@, view[v].keyframe)]
    /\ UNCHANGED <<hostVars, objVars, wire>>

\* line 359 for a screen the loop captured, clients being non-empty at
\* line 339
get_next_payload_screen(frame) ==
    /\ \E v \in Viewers : view[v].member
    /\ wire.pc \in {"idle", "done", "dropped"}
    /\ PartitionBegin(frame)
    /\ wire' = NoWire
    /\ UNCHANGED <<hostVars, govVars, engVars, view>>

\* lines 339-342: with no viewer the loop captures once a second and drops
\* the payload
get_next_payload_unwatched(frame) ==
    /\ \A v \in Viewers : ~view[v].member
    /\ wire.pc \in {"idle", "done", "dropped"}
    /\ PartitionBegin(frame)
    /\ wire' = [NoWire EXCEPT !.pc = "dropped"]
    /\ UNCHANGED <<hostVars, govVars, engVars, view>>

\* the codec accepts every tile
get_next_payload_encoded ==
    /\ get_next_payload_encode({})

\* lines 360-364: the payload goes to the viewers in clients, who paste it
engine_broadcast_loop_deliver ==
    /\ wire.pc = "returned"
    /\ wire' = [wire EXCEPT !.pc = "done", !.broadcast = wire.payload]
    /\ view' = [v \in Viewers |->
                  IF view[v].member
                  THEN [view[v] EXCEPT !.screen_buffer = Paste(@, wire.payload)]
                  ELSE view[v]]
    /\ UNCHANGED <<hostVars, objVars>>

NextView ==
    \/ \E v \in Viewers, frame \in KeyScreens : ws_handler_initial_payload(v, frame)
    \/ \E v \in Viewers : ws_handler_initial_sent(v)
    \/ \E frame \in KeyScreens : get_next_payload_screen(frame)
    \/ \E frame \in KeyScreens : get_next_payload_unwatched(frame)
    \/ partition_and_detect_changes_row
    \/ partition_and_detect_changes_end
    \/ get_next_payload_encoded
    \/ engine_broadcast_loop_deliver

SpecView == InitJoin /\ [][NextView]_vars

\* ================================================================ claims
\* The positions of payloads of a kind in a viewer's log.
Positions(v, kinds) == {i \in 1..Len(sent[v]) : sent[v][i].kind \in kinds}

\* C1: every delta payload handed to a viewer is preceded, in that viewer's
\* channel, by a keyframe (the join keyframe of the handler or a keyframe
\* of the broadcast loop).  Violated: the handler adds the websocket to the
\* viewer set before it requests the join keyframe, and a loop whose force
\* flag is already cleared fans a delta out in between.
C1_KeyframeBeforeDelta ==
    \A v \in Viewers : \A i \in Positions(v, {"delta"}) :
        \E j \in Positions(v, {"join", "key"}) : j < i

\* C2: the join payload has type tag 0x02, num_tiles = 0 and the
\* dimensions of the captured frame.  Violated: the handler sends what
\* get_initial_payload returned, tag 0x01, unchanged.
C2_JoinPayloadIsKeyframe ==
    \A v \in Viewers : \A i \in Positions(v, {"join"}) :
        /\ sent[v][i].tag = TagKey
        /\ sent[v][i].num_tiles = 0
        /\ <<sent[v][i].full_w, sent[v][i].full_h>> = MonitorDims(hnd[v].mon)

\* The sends in progress toward a viewer: the guarded delta tasks, the
\* keyframe send a loop awaits, the join send the handler awaits.
KeySends(v) == Cardinality({s \in SlotIds : loop[s].pc = "keySend" /\ loop[s].cur = v})
JoinSends(v) == IF hnd[v].pc = "initSend" THEN 1 ELSE 0
InFlight(v) == deltaPending[v] + KeySends(v) + JoinSends(v)

\* C3: at most one send is in progress toward any viewer.  Violated: the
\* join send of the handler is not entered in _clients_sending, so the loop
\* starts a delta send while it is in progress.
C3_SingleInFlight == \A v \in Viewers : InFlight(v) <= 1

\* The viewers of the slot a loop serves in its current iteration.
LoopClients(s) == slots[engines[loop[s].mon]].clients

\* C4 as stated: a loop skips an iteration only when none of its viewers
\* is free, so a viewer with no send in flight keeps being served while
\* another one's send is pending.  Violated: line 346 skips on any.
C4_FreeViewerStillServed ==
    [][\A s \in SlotIds :
          (AtTop(s) /\ engines[loop[s].mon] # 0 /\ loop'[s].pc = "skipSleep")
              => \A v \in LoopClients(s) : v \in clients_sending]_vars

\* C4 amended: an iteration of the broadcast loop that finds a send in
\* flight toward any of its viewers fetches no payload and starts no send
\* toward any viewer; it sleeps and checks again.
C4_AnyPendingSendSkipsIteration ==
    [][\A s \in SlotIds :
          (/\ AtTop(s)
           /\ engines[loop[s].mon] # 0
           /\ \E v \in LoopClients(s) : v \in clients_sending
           /\ loop'[s] # loop[s])
              => /\ loop'[s].pc = "skipSleep"
                 /\ UNCHANGED sendVars]_vars

\* a loop is in its congestion sleep although one of its viewers is free
C4_Witness ==
    \E s \in SlotIds :
        /\ loop[s].pc = "skipSleep"
        /\ engines[loop[s].mon] = loop[s].data
        /\ \E v1, v2 \in slots[loop[s].data].clients :
              /\ v1 \in clients_sending
              /\ deltaPending[v1] > 0
              /\ v2 \notin clients_sending
              /\ open[v2]

\* C5: the payloads handed to a viewer's channel carry timestamps that
\* never decrease (a fortiori, strictly increasing ones would).  Violated:
\* the join keyframe is stamped when it is encoded and handed over after a
\* delta that was encoded later.
C5_MonotoneTimestamps ==
    \A v \in Viewers : \A i, j \in 1..Len(sent[v]) :
        i < j => sent[v][i].timestamp_ms <= sent[v][j].timestamp_ms

\* C6: when the rebuild a faulting loop scheduled has registered its
\* replacement slot, every viewer of the old slot that is still connected
\* is a viewer of the replacement.  Violated: the replacement starts with
\* "clients": set().
C6_RebuildKeepsViewers ==
    \A s \in SlotIds :
        LET c == goe[RebuildTask(s)]
        IN (c.pc = "ret" /\ c.old # 0) =>
              \A v \in slots[c.old].clients :
                  hnd[v].pc = "closed" \/ v \in slots[c.ret].clients

\* C7: a call whose construction threw retries and terminates: the retry
\* is never left waiting for the registry lock that its own, still open,
\* first attempt holds.  Violated: lines 130-132 await the retry inside
\* the async with block, and asyncio.Lock is not reentrant.
C7_RetryNotSelfBlocked ==
    \A t \in Tasks : ~(goe[t].pc = "lock" /\ goe[t].nested /\ engine_lock = t)

\* C8: every engine get_or_create_engine constructs for a monitor whose
\* blacklist entry is present and younger than 60 s is built with
\* optimize_capture_pipeline off, whatever the caller's force flag.
C8_CoolDownForcesCompat ==
    [][\A m \in Monitors :
          (/\ nextSlot' = nextSlot + 1
           /\ slots'[nextSlot'].mon = m
           /\ InCoolDown(m))
              => ~slots'[nextSlot'].optimize]_vars

\* optimisation is configured, yet the registered slot was built without
\* it by a handler's unforced call, the monitor being in its cool-down
C8_Witness ==
    /\ cfgOptimize
    /\ \E s \in SlotIds :
          /\ engines[slots[s].mon] = s
          /\ slots[s].backend # "none"
          /\ ~slots[s].optimize
          /\ InCoolDown(slots[s].mon)
          /\ \A t \in Tasks : ~goe[t].nested /\ (t \notin Viewers => goe[t].pc = "none")

\* C9: when a call that asked for the native pipeline (not forced, the
\* optimisation configured and no cool-down) gets an engine whose capture
\* names itself MSS, the blacklist records the monitor with the current
\* time and the new slot is registered with its video and audio tasks
\* running.
C9_DowngradeBlacklistsAndRuns ==
    [][\A s \in SlotIds :
          (/\ nextSlot' = s
           /\ nextSlot = s - 1
           /\ slots'[s].optimize
           /\ slots'[s].backend = "MSS")
              => /\ backend_blacklist'[slots'[s].mon] = now
                 /\ engines'[slots'[s].mon] = s
                 /\ loop'[s].pc = "top"
                 /\ ~loop'[s].cancel
                 /\ slots'[s].audio_task = "running"]_vars

\* a downgraded slot is registered and its monitor is blacklisted
C9_Witness ==
    \E s \in SlotIds :
        /\ slots[s].optimize
        /\ slots[s].backend = "MSS"
        /\ engines[slots[s].mon] = s
        /\ backend_blacklist[slots[s].mon] = now
        /\ Running(s)

\* A call is past the existing-slot check: it tears the old slot down,
\* waits for it to settle, or is in the except block of a failed
\* construction (sleeping, or awaiting its nested retry).
PastStep2(t) ==
    \/ goe[t].pc \in {"stop", "settle", "retrySleep"}
    \/ goe[t].pc = "lock" /\ goe[t].nested

\* C10: no two get_or_create_engine calls are past the existing-slot
\* check at once, and while one is, no other call builds a slot.
C10_RegistrySerialized ==
    /\ [](\A t1, t2 \in Tasks : (PastStep2(t1) /\ PastStep2(t2)) => t1 = t2)
    /\ [][\A t \in Tasks :
             (PastStep2(t) /\ nextSlot' # nextSlot) => goe'[t] # goe[t]]_vars

\* one call tears a slot down while another waits for the lock
C10_Witness ==
    \E t1, t2 \in Tasks :
        /\ t1 # t2
        /\ goe[t1].pc \in {"stop", "settle"}
        /\ engine_lock = t1
        /\ goe[t2].pc = "lock"
        /\ ~goe[t2].nested

\* C13: in the step that completes a software reset the in-flight map and
\* the blacklist are empty and the configured monitor's engine is the only
\* one registered.  Violated: the engine the reset itself rebuilds (or one
\* a joining viewer builds meanwhile) can be a silent MSS downgrade, which
\* blacklists the monitor again after line 284 cleared the blacklist.
C13_ResetPurity ==
    [][\A v \in Viewers :
          (hnd[v].pc = "resetEngine" /\ hnd'[v].pc = "msgs")
              => /\ clients_sending' = {}
                 /\ \A m \in Monitors : backend_blacklist'[m] = NoTime
                 /\ \A m \in Monitors : engines'[m] # 0 <=> m = cfgMonitor']_vars

\* C11: in the step that completes a switch to monitor m no engine other
\* than m's is registered, m's engine is registered, and every viewer the
\* switch collected at its start that is still connected is in m's viewer
\* set and has received a VERSION record naming m.  Violated: a viewer
\* that joins, or a second SWITCH_MONITOR that runs, while the switch awaits
\* an engine's stop registers another engine that the switch never stops.
C11_SwitchMovesEveryone ==
    [][\A v \in Viewers :
          (hnd[v].pc \in {"switchEngine", "swSend"} /\ hnd'[v].pc = "msgs")
              => LET m == hnd[v].target
                 IN /\ engines'[m] # 0
                    /\ \A m2 \in Monitors \ {m} : engines'[m2] = 0
                    /\ \A c \in hnd[v].moved :
                          open'[c] => /\ c \in slots'[engines'[m]].clients
                                      /\ hnd'[c].version = m]_vars

C14_ResetFinishes ==
    \A v \in Viewers :
        (hnd[v].pc \in {"rsClose", "rsStop", "rsGather", "resetEngine"})
            ~> \/ hnd[v].pc = "msgs"
               \/ nextSlot = MaxSlots
               \/ \E s \in SlotIds :
                     /\ AtTop(s)
                     /\ engines[loop[s].mon] # 0
                     /\ slots[engines[loop[s].mon]].clients # {}

\* C15: a broadcast loop starts a recovery keyframe only when
\* get_next_payload returned no changed tiles, more than 2 s have passed
\* since its last changed payload and it has sent no keyframe since then;
\* the recovery keyframe goes to every viewer of the engine with tag 0x02,
\* and the mark that one was sent is taken back only by the fan-out of a
\* payload with changed tiles.
C15_OneRecoveryKeyframe ==
    /\ [](\A s \in SlotIds :
            (loop[s].recovery /\ loop[s].pc \in {"keyReady", "keySend"})
                => loop[s].payload.tag = TagKey)
    /\ [][\A s \in SlotIds :
            /\ (~loop[s].recovery /\ loop'[s].recovery)
                  => /\ loop[s].pc = "fetched"
                     /\ loop[s].payload = NoPayload
                     /\ ~loop[s].enh_sent
                     /\ now - loop[s].last_change > RecoveryGap
            /\ (loop[s].recovery /\ loop[s].pc = "keyReady" /\ loop'[s].pc = "keySend")
                  => loop'[s].queue \cup {loop'[s].cur}
                        = {v \in slots[loop[s].data].clients : open[v]}
            /\ (loop[s].recovery /\ ~loop'[s].recovery /\ loop'[s].pc = "top")
                  => loop'[s].enh_sent
            /\ (loop[s].enh_sent /\ ~loop'[s].enh_sent /\ loop'[s].pc # "none")
                  => /\ loop[s].pc = "fetched"
                     /\ loop[s].payload # NoPayload]_vars

\* a recovery keyframe is on its way to the viewers of a static screen
C15_Witness ==
    \E s \in SlotIds :
        /\ loop[s].pc = "keySend"
        /\ loop[s].recovery
        /\ now - loop[s].last_change > RecoveryGap
        /\ \E i \in 1..Len(sent[loop[s].cur]) :
              sent[loop[s].cur][i] = LogEntry("key", loop[s].payload)

\* C16: a session that has sent DASHBOARD_IDENT is in the dashboard set
\* and in the viewer set of no registered engine.  Violated: the handler
\* discards the session from the engine record it obtained when it
\* connected (line 193); after a monitor switch has moved the session to
\* another engine's set, that set keeps it.
C16_DashboardNotViewer ==
    \A v \in Viewers :
        hnd[v].dashboard
            => \A m \in Monitors :
                  engines[m] # 0 => v \notin slots[engines[m]].clients

\* C17: when the statistics of viewer v are fed to the governor of an
\* engine record and applied to its engine, that record is the registered
\* one whose viewer set holds v.  Violated: the handler uses the record it
\* obtained when it connected (line 193); after a monitor switch moved v to
\* the new engine, the statistics still go to the stopped one.
C17_StatsReachCurrentEngine ==
    [][\A s \in SlotIds : \A v \in Viewers :
          (slots'[s].gov_stats = v /\ slots[s].gov_stats # v)
              => \A m \in Monitors :
                    (engines[m] # 0 /\ v \in slots[engines[m]].clients)
                        => engines[m] = s]_vars

\* C18: a text message that is not valid JSON is ignored: the session
\* stays connected, in the message loop and in the viewer sets it was in.
\* Violated: json.loads raises inside the async for and the except clause
\* is outside it, so the handler leaves the loop, removes the session from
\* every viewer set and the connection is closed.
C18_MalformedIgnored ==
    [][\A v \in Viewers :
          (hnd[v].err # "JSONDecodeError" /\ hnd'[v].err = "JSONDecodeError")
              => /\ hnd'[v].pc = "msgs"
                 /\ open'[v]
                 /\ \A s \in SlotIds :
                       v \in slots[s].clients <=> v \in slots'[s].clients]_vars

\* C19: when a guarded send ends (by success, timeout or transport error)
\* the viewer's entry is gone from the in-flight map and every viewer set
\* and connection is as before, so the viewer is a target of the next
\* fan-out; every entry of the map has a pending guard, and under fair
\* scheduling every entry is eventually removed.
C19_GuardClearsItsEntry ==
    /\ [](\A v \in clients_sending : deltaPending[v] > 0)
    /\ [][\A v \in Viewers :
            deltaPending'[v] < deltaPending[v]
                => /\ v \notin clients_sending'
                   /\ slots' = slots
                   /\ open' = open
                   /\ \A s \in SlotIds :
                         v \in slots'[s].clients
                             => v \in FanoutTargets(slots[s].clients)']_vars
    /\ \A v \in Viewers : (v \in clients_sending) ~> (v \notin clients_sending)

\* a viewer whose delta was sent and whose guard has ended is still in
\* the viewer set of the registered engine, with no entry in the map
C19_Witness ==
    \E v \in Viewers :
        /\ \E i \in 1..Len(sent[v]) : sent[v][i].kind = "delta"
        /\ deltaPending[v] = 0
        /\ v \notin clients_sending
        /\ engines[Monitor] # 0
        /\ v \in slots[engines[Monitor]].clients

\* C20: a viewer that is in its message loop without having been handed
\* any video payload (its join keyframe was not delivered) is, under fair
\* scheduling and as long as it stays connected, eventually sent a
\* keyframe by a broadcast loop, or its loop has found the screen static
\* with no keyframe sent since the last change (the recovery keyframe is
\* then a matter of time).  Violated: a viewer that joins an engine whose
\* force flag is already cleared gets deltas only while the screen keeps
\* changing, and nothing at all while the screen is static and the loop
\* has sent its keyframe before.
C20_LateKeyframe ==
    \A v \in Viewers :
        (hnd[v].pc = "msgs" /\ open[v] /\ sent[v] = <<>>)
            ~> \/ ~open[v]
               \/ \E s \in SlotIds : loop[s].pc = "keySend" /\ loop[s].cur = v
               \/ \E s \in SlotIds :
                     /\ loop[s].pc = "fetched"
                     /\ loop[s].payload = NoPayload
                     /\ ~loop[s].enh_sent
                     /\ v \in slots[loop[s].data].clients

\* The tile size a viewer's message asks for (lines 161-163).
TileDemand(st) ==
    IF DecodePressure(st) > 80 THEN 512
    ELSE IF DecodePressure(st) > 50 THEN 256 ELSE DefaultTile

\* C21: when the CLIENT_STATS of viewer v is handled while another viewer
\* w of the engine has reported a higher pressure and the engine runs with
\* the tile size w's message demanded, the engine's tile size does not go
\* down, its frame rate does not go up and its quality does not go up.
\* Violated: the engine has one governor and the message handled last
\* decides; a calm message of the fast viewer sets the tile size back to
\* 128 and the frame rate back to 20.
C21_SlowestViewerGoverns ==
    [][\A v \in Viewers : \A w \in Viewers \ {v} :
          (/\ governor # NoGovernor
           /\ fed'.by = v
           /\ engine_params' # engine_params
           /\ reported[w] # NoStats
           /\ TotalPressure(reported[w]) > TotalPressure(fed'.stats)
           /\ engine_params.tile_size = TileDemand(reported[w])
           /\ engine_params.tile_size > DefaultTile)
              => /\ engine_params'.tile_size >= engine_params.tile_size
                 /\ engine_params'.frame_rate <= engine_params.frame_rate
                 /\ engine_params'.quality <= engine_params.quality]_vars

\* C22: an accepted governor update whose total pressure is above 0.1
\* does not raise the quality, as kept and as applied, and leaves it at or
\* above min_q; so the quality is non-increasing over any run of such
\* updates.
C22_MonotoneUnderPressure ==
    [][(/\ governor # NoGovernor
        /\ governor'.last_update_time # governor.last_update_time
        /\ TotalPressure(fed'.stats) > 10)
          => /\ governor'.current_quality <= governor.current_quality
             /\ get_quality(governor') <= get_quality(governor)
             /\ get_quality(governor') >= ModeCfg(governor.mode).min_q
             /\ engine_params'.quality = get_quality(governor')]_vars

\* three pressed updates in a row have brought the quality down
C22_Witness ==
    /\ run.pressed = 3
    /\ governor.current_quality < ModeCfg(governor.mode).target_q * QScale
    /\ governor.current_quality > ModeCfg(governor.mode).min_q * QScale

\* C23 as stated: on the first heavy tick after the calm ticks the applied
\* quality does not decrease, and the tile size reaches 512 only from 256.
\* Violated: the first heavy tick divides the quality by 1.5 (75 to 50, a
\* change beyond the deadband of 5) and, decode pressure being 1.5, sets
\* the tile size to 512 at once.
C23_ScenarioAsStated ==
    [][/\ (run.calm = ScenarioCalm /\ run.pressed = 0 /\ run'.pressed = 1)
            => engine_params'.quality >= get_quality(governor)
       /\ (run.calm = ScenarioCalm /\ governor'.current_tile_size = 512)
            => governor.current_tile_size \in {256, 512}]_vars

\* C23: after the calm ticks the BALANCED governor is at quality 75 and
\* tile size 128; the first heavy tick brings the applied quality to 50
\* and the tile size to 512; every heavy tick lowers the quality until it
\* is min_q, never below, and keeps the tile size at 512.
C23_ScenarioAsBuilt ==
    /\ []((run.calm >= 1 /\ run.pressed = 0)
            => /\ get_quality(governor) = 75
               /\ governor.current_tile_size = DefaultTile)
    /\ [][/\ (run.calm = ScenarioCalm /\ run.pressed = 0 /\ run'.pressed = 1)
               => engine_params'.quality = 50
          /\ (run'.pressed = run.pressed + 1)
               => /\ engine_params'.tile_size = 512
                  /\ engine_params'.quality >= ModeCfg("BALANCED").min_q
                  /\ \/ engine_params'.quality < get_quality(governor)
                     \/ get_quality(governor) = ModeCfg("BALANCED").min_q]_vars

\* the scenario has run to its end: 20 calm and 10 heavy ticks
C23_Witness ==
    /\ run.calm = ScenarioCalm
    /\ run.pressed = ScenarioPressed
    /\ engine_params.quality = ModeCfg("BALANCED").min_q
    /\ engine_params.tile_size = 512

\* C24: the governor's quality is within [min_q, max_q] of its mode, the
\* quality of the engine is an integer in 1..100 and the tile sizes of the
\* governor and of the engine are among 128, 256, 512.
C24_GovernorRanges ==
    /\ governor # NoGovernor
         => /\ governor.current_quality >= ModeCfg(governor.mode).min_q * QScale
            /\ governor.current_quality <= ModeCfg(governor.mode).max_q * QScale
            /\ governor.current_tile_size \in {128, 256, 512}
    /\ engine_params.quality \in 1..100
    /\ engine_params.tile_size \in {128, 256, 512}

\* the clamp has acted: pressed updates have left the quality at min_q
C24_Witness ==
    /\ governor # NoGovernor
    /\ run.pressed >= 2
    /\ governor.current_quality = ModeCfg(governor.mode).min_q * QScale
    /\ engine_params.quality = ModeCfg(governor.mode).min_q


\* The delta returned last came from partition_and_detect_changes
Partitioned == delta # NoDelta /\ given.op = "partition_and_detect_changes"
SameDimensions(a, b) == a.width = b.width /\ a.height = b.height
TileList == {delta.changed_tiles[i] : i \in 1..Len(delta.changed_tiles)}
TilePixels(t) == (t.x..(t.x + t.width - 1)) \X (t.y..(t.y + t.height - 1))
ChangedPixels == {c \in Coords(given.frame.width, given.frame.height) :
                     given.frame.px[c] # given.ref.px[c]}

\* C25: a DeltaFrame with full_frame_fallback has exactly one tile, at
\* (0,0), with the frame's width and height; the partitioner returns such a
\* delta for its first frame, for a frame whose dimensions differ from the
\* reference's, and for every forced keyframe (create_full_frame_delta).
C25_FullFrameForm ==
    delta # NoDelta =>
       /\ delta.full_frame_fallback =>
             /\ Len(delta.changed_tiles) = 1
             /\ delta.changed_tiles[1].x = 0
             /\ delta.changed_tiles[1].y = 0
             /\ delta.changed_tiles[1].width = given.frame.width
             /\ delta.changed_tiles[1].height = given.frame.height
       /\ (Partitioned /\ given.ref = NoFrame) => delta.full_frame_fallback
       /\ (Partitioned /\ ~SameDimensions(given.ref, given.frame)) => delta.full_frame_fallback
       /\ given.op = "create_full_frame_delta" => delta.full_frame_fallback

C25_Witness ==
    /\ Partitioned
    /\ given.ref # NoFrame
    /\ ~SameDimensions(given.ref, given.frame)
    /\ delta.full_frame_fallback
    /\ delta.changed_tiles[1].width = MaxWidth

\* The tiles of the delta are grid cells of step ts of the frame, they are
\* pairwise disjoint, they cover every changed pixel and each of them holds
\* one.
GridTiles(ts) ==
    /\ \A t \in TileList :
          /\ 0 <= t.x /\ t.x + t.width <= given.frame.width
          /\ 0 <= t.y /\ t.y + t.height <= given.frame.height
          /\ t.x % ts = 0 /\ t.y % ts = 0
          /\ t.width = Min2(ts, given.frame.width - t.x)
          /\ t.height = Min2(ts, given.frame.height - t.y)
          /\ TilePixels(t) \cap ChangedPixels # {}
    /\ \A i, j \in 1..Len(delta.changed_tiles) :
          i # j => TilePixels(delta.changed_tiles[i]) \cap TilePixels(delta.changed_tiles[j]) = {}
    /\ \A c \in ChangedPixels : \E t \in TileList : c \in TilePixels(t)

\* C26: for a frame of the reference's dimensions the tiles returned by
\* partition_and_detect_changes are exactly the cells of the grid of step
\* tile_size (trimmed at the right and bottom edge) that differ from the
\* reference: within the frame, pairwise disjoint, covering every changed
\* pixel, none of them unchanged (tile_size being a value the partitioner's
\* tile size had during the call).  Violated: the call runs in an executor
\* thread and reads self._tile_size for every row, while the event loop
\* thread sets it.
C26_ChangedGridCells ==
    (Partitioned /\ given.ref # NoFrame /\ SameDimensions(given.ref, given.frame))
       => \E ts \in TileSizes : GridTiles(ts)



\* The calls that are past their wait for the lock and not yet back
InsideEngine == {c \in EngCallers : call[c].pc \notin {"idle", "get_frame"}}

\* C27: every get_next_payload call leaves last_frame the frame the call
\* captured, on every capture backend, and returns None exactly when it
\* found no changed tile.  Violated: on the Rust backend the call returns at
\* lines 103-108 and never assigns last_frame.
C27_LastFrameEveryCall ==
    [][(call["loop"].pc # "idle" /\ call'["loop"].pc = "idle") =>
          /\ streamEngine'.last_frame = call'["loop"].frame
          /\ (call'["loop"].result = "None") <=>
                IF call["loop"].pc = "native"
                THEN ~streamEngine.native_force /\ streamEngine.native_ref = call'["loop"].frame
                ELSE delta.changed_tiles = <<>>]_vars

\* C28: at most one of get_next_payload, get_initial_payload and stop is
\* inside the engine (capturing, partitioning, encoding or closing) at a
\* time.  Violated: the lock is held for the capture only.
C28_OneCallInside == Cardinality(InsideEngine) <= 1


\* C29: FORCE_REFRESH sets the force flag of every registered engine, and
\* under fair scheduling every viewer that was in a registered engine's
\* viewer set when the command was handled is eventually sent a 0x02
\* keyframe (or disconnects, or is in no registered engine's viewer set any
\* more, or its loop has found the screen static with no keyframe sent
\* since the last change: the recovery keyframe is then a matter of time),
\* and a set flag of an engine with viewers is eventually cleared.
\* Violated: a command handled while the loop is in the sends of a forced
\* or recovery keyframe sets a flag that is already being served; the end
\* of that pass clears it, and the viewers the pass had served before the
\* command get no keyframe after it.
C29_RefreshReachesViewers ==
    /\ [][owed' # owed /\ owed' \ owed # {} =>
             \A s \in Registered : slots'[s].force_enhancement]_vars
    /\ \A v \in Viewers :
          (v \in owed) ~> \/ v \notin owed
                          \/ ~open[v]
                          \/ \A s \in Registered : v \notin slots[s].clients
                          \/ \E s \in SlotIds :
                                /\ loop[s].pc = "fetched"
                                /\ loop[s].payload = NoPayload
                                /\ ~loop[s].enh_sent
                                /\ v \in slots[loop[s].data].clients
    /\ \A s \in SlotIds :
          (s \in Registered /\ slots[s].force_enhancement /\ slots[s].clients # {})
             ~> \/ ~slots[s].force_enhancement
                \/ s \notin Registered
                \/ slots[s].clients = {}


\* C30: a step that changes the engine registry (a slot inserted, removed
\* or replaced) is a step of a get_or_create_engine call of a task that
\* holds the registry mutex during the step: it held it before or takes
\* the free mutex in the step, and nobody else holds it after.  Violated:
\* _perform_software_reset and _perform_switch pop slots without the mutex.
C30_RegistryUnderMutex ==
    [][engines' # engines =>
          \E t \in Tasks :
             /\ goe'[t] # goe[t]
             /\ engine_lock \in {0, t}
             /\ engine_lock' \in {0, t}]_vars

\* C31: a broadcast task whose cancellation has been requested takes one
\* more step only: the CancelledError raised at the await it is suspended
\* in ends the task (its next state is "done"), in every branch of the
\* loop; the request is never discarded with the task still running.
\* Violated: the bare except of the no-viewer branch (line 341) catches
\* the CancelledError, sleeps a second and continues the while loop.
C31_CancelEndsTask ==
    [][\A s \in SlotIds :
          (loop[s].cancel /\ loop'[s] # loop[s]) => loop'[s].pc = "done"]_vars

\* C32: of two DeltaFrames the engine's partitioner produces one after the
\* other, change-detected deltas and forced full-frame keyframes alike,
\* the later one has the greater frame_number.  Violated:
\* create_full_frame_delta numbers every keyframe 0 (line 81) and leaves
\* the counter alone.
C32_FrameNumberIncreases ==
    [][(delta # NoDelta /\ delta' # NoDelta /\ delta' # delta)
          => delta'.frame_number > delta.frame_number]_vars

\* C33: when the tile size is set while partition_and_detect_changes is
\* cutting a frame in its worker thread, the tiles the call returns are
\* still pairwise disjoint and every pixel in which the frame differs from
\* the reference lies in one of them.  Violated: every row re-reads
\* self._tile_size (lines 52-55), the row offsets come from the range built
\* with the old value (line 51).
C33_TileSizeFromNextFrame ==
    (Partitioned /\ given.raced /\ given.ref # NoFrame
        /\ SameDimensions(given.ref, given.frame))
       => /\ \A i, j \in 1..Len(delta.changed_tiles) :
                i # j => TilePixels(delta.changed_tiles[i])
                            \cap TilePixels(delta.changed_tiles[j]) = {}
          /\ \A c \in ChangedPixels : \E t \in TileList : c \in TilePixels(t)

\* The tiles of the encoded delta the codec did not reject
Accepted_tiles(w) ==
    SelectSeq([i \in 1..Len(w.delta.changed_tiles) |->
                  [i |-> i, t |-> TileEntry(w.delta.changed_tiles[i])]],
              LAMBDA e : e.i \notin w.rejected)

\* C34: when the codec rejects tiles of a delta but not all of them, the
\* loop, once it has dealt with the result of get_next_payload, has
\* broadcast a payload holding exactly the other tiles of the delta.
\* Violated: the exception of _encode_tile leaves encode and
\* get_next_payload; the loop's handler sleeps and nothing is broadcast.
C34_OnlyRejectedTileDropped ==
    (wire.pc = "done" /\ Accepted_tiles(wire) # <<>>)
       => /\ wire.broadcast # EmptyBytes
          /\ wire.broadcast.tiles = [i \in 1..Len(Accepted_tiles(wire)) |->
                                        Accepted_tiles(wire)[i].t]

\* Nothing is on its way: no partition or encode in progress, the last
\* payload delivered, no join keyframe unsent
Settled ==
    /\ work.pc = "idle"
    /\ wire.pc \in {"done", "dropped"} \/ (wire.pc = "idle" /\ delta = NoDelta)
    /\ \A v \in Viewers : view[v].keyframe = EmptyBytes

\* C35: once every payload produced has been delivered, the image of every
\* viewer in the engine's clients equals the partitioner's reference frame
\* (each replacement of the reference reached every viewer, as a keyframe
\* or as the changed tiles).  Violated: a join keyframe replaces the
\* reference and is sent to the joining viewer only.
C35_ViewersFollowReference ==
    Settled => \A v \in Viewers :
                  view[v].member => view[v].screen_buffer = partitioner.last_frame_np

\* C36: a broadcast loop works on the slot it was started for only: when
\* it is fetching a payload or sending, the engine_data it took from the
\* registry is its own, never a slot registered later for the same monitor
\* (so the new slot is served by its own loop alone).  Violated: a loop
\* whose cancellation was swallowed, or that sleeps while its slot is
\* replaced, looks the monitor id up again (line 335) and finds the new slot.
C36_LoopServesOwnSlot ==
    \A s \in SlotIds :
        loop[s].pc \in {"idleFetch", "fetch", "fetched", "keyFetch", "keyReady", "keySend"}
           => loop[s].data = s

\* C37: a step of a get_or_create_engine call leaves every viewer of a
\* registered slot in the registered slot of its monitor: a viewer joining
\* a monitor that has a slot, also during the blacklist cool-down, removes
\* nobody.  Violated: in the cool-down the call forces compat mode, pops
\* the registered slot (line 102) and registers one with "clients": set().
C37_JoinKeepsViewers ==
    [][(\E t \in Tasks : goe'[t] # goe[t]) =>
          \A m \in Monitors : \A v \in Viewers :
             (engines[m] # 0 /\ v \in slots[engines[m]].clients)
                => (engines'[m] # 0 /\ v \in slots'[engines'[m]].clients)]_vars

\* C38: every session in the viewer set of a registered slot has its
\* connection handler running: a viewer whose handler has finished is in
\* no registered viewer set.  Violated: _perform_switch adds the sessions
\* it collected at line 306 to the new slot (line 324) after its awaits,
\* also those whose handler ran its finally clause in the meantime.
C38_ViewersAreConnected ==
    \A s \in Registered : \A v \in slots[s].clients : hnd[v].pc \notin {"none", "closed"}

\* C39: when a governor that was under pressure has since taken
\* ScenarioCalm low-pressure updates in a row (total pressure at most 0.1),
\* the quality applied to the engine has been raised: it is above the
\* min_q of the mode (on its way to max_q).  Violated: the raise of 2 is
\* measured against last_applied_quality, which equals current_quality, and
\* never passes the deadband of 5; the quality stays where the pressure
\* left it.
C39_SlackRaisesQuality ==
    (governor # NoGovernor /\ run.pressed = 0 /\ run.calm = ScenarioCalm)
       => engine_params.quality > ModeCfg(governor.mode).min_q

\* C40: once stop() of the engine has completed, no call creates the
\* capture generator again (and so none captures through it).  Violated:
\* the engine keeps no record of having been stopped; _get_frame of a
\* get_initial_payload that starts after the stop finds _capture_iter None
\* and calls capture_gen() (lines 62-63).
C40_NoCaptureAfterStop ==
    [][streamEngine.stopped =>
          ~(~streamEngine.capture_iter /\ streamEngine'.capture_iter)]_vars

====
